---- MODULE Spec2Model ----
(***************************************************************************)
(* A model of the pane launcher: skill discovery (skills/loader.rs), fuzzy *)
(* search (search.rs), the application state machine (state.rs, app.rs,    *)
(* input.rs), the bounded output buffer (skills/output.rs) and the         *)
(* execution runner (skills/runner.rs).                                    *)
(*                                                                         *)
(* Rust indices are 0-based and are kept 0-based here: `skills` is a       *)
(* function on 0..NSkills-1, selected_index and scroll_offset count from   *)
(* 0.  Vec<T> values are TLA+ sequences, so the element at Rust position i *)
(* is s[i + 1].                                                            *)
(***************************************************************************)
EXTENDS Integers, Sequences, FiniteSets, TLC

VARIABLES
    app,         \* AppState (state.rs:57-95), a record of its fields
    call,        \* the last AppState method called directly (None in the event loop)
    disc,        \* discover_skills (loader.rs:30-61): roots, position, skill_map
    ob,          \* an OutputBuffer under test (output.rs:100-107) and its call history
    run          \* one execution by the runner (runner.rs), with its child process

vars == <<app, call, disc, ob, run>>

(***************************************************************************)
(* Bounds of the model.                                                    *)
(***************************************************************************)
NSkills == 3          \* size of the skill collection handed to AppState::new
MaxQueryLen == 2      \* longest search query typed
MaxRecentCfg == 2     \* largest configured max_recent_skills
MaxFiles == 2         \* most manifest files found under one discovery root
MaxLimit == 3         \* largest ceiling given to OutputBuffer::with_limit
MaxData == 2          \* longest slice given to one OutputBuffer::append
MaxAppended == 5      \* most bytes appended to one OutputBuffer in all
MaxOps == 3           \* most write calls a child process makes
MaxWrite == 3         \* most bytes a child passes to one write call
PipeCapacity == 2     \* capacity of an operating-system pipe buffer
MaxExitCode == 63  \* highest exit code a child is given
NTips == 3          \* tips in the largest tips file
MaxPage == 2          \* largest page size / visible height given to paging
MaxIdLen == 2         \* longest manifest id given to validate
\* The runner's two sizes, scaled down from 10 MiB (output.rs:7) and 8192
\* bytes (runner.rs:247) so that the ceiling and the chunk boundary are met.
MAX_OUTPUT_SIZE == 3
ChunkLen == 2

\* Program constants.
DEFAULT_PAGE_SIZE == 10
OUTPUT_VISIBLE_HEIGHT == 20

(***************************************************************************)
(* Generic helpers.                                                        *)
(***************************************************************************)
Min(a, b) == IF a <= b THEN a ELSE b

Max(a, b) == IF a >= b THEN a ELSE b

\* usize::saturating_sub
SatSub(a, b) == IF a >= b THEN a - b ELSE 0

Range(s) == {s[i] : i \in 1..Len(s)}

Contains(s, x) == \E i \in 1..Len(s) : s[i] = x

\* Position of the first x in the sequence s (0 when absent).
PosIn(s, x) ==
    IF Contains(s, x)
    THEN CHOOSE k \in 1..Len(s) : s[k] = x /\ \A m \in 1..(k - 1) : s[m] /= x
    ELSE 0

\* Vec::retain(|e| e != x)
Retain(s, x) == SelectSeq(s, LAMBDA e : e /= x)

\* Iterator::take(n) / Vec::truncate(n)
Take(s, n) == SubSeq(s, 1, Min(n, Len(s)))

NoDuplicates(s) == \A i, j \in 1..Len(s) : i /= j => s[i] /= s[j]

\* All sequences over S of length at most n.
SeqsUpTo(S, n) == UNION {[1..k -> S] : k \in 0..n}

(***************************************************************************)
(* The skill collection.  Text is a sequence of one-character strings.     *)
(***************************************************************************)
SkillPool ==
    << [id |-> <<"j", "k">>, name |-> <<"J", "k", "f">>, tags |-> <<>>,
        description |-> <<"x">>, mode |-> "Inline"],
       [id |-> <<"k", "j">>, name |-> <<"K", "x">>, tags |-> << <<"f">> >>,
        description |-> <<"x", "j">>, mode |-> "Tui"],
       [id |-> <<"f", "x">>, name |-> <<"x", "f", "j">>, tags |-> << <<"k">>, <<"j">> >>,
        description |-> <<"x">>, mode |-> "Inline"],
       [id |-> <<"x", "k">>, name |-> <<"?", "x">>, tags |-> <<>>,
        description |-> <<"j", "x", "k">>, mode |-> "Tui"],
       [id |-> <<"x", "x">>, name |-> <<"F", "/", "j">>, tags |-> << <<"x">> >>,
        description |-> <<"k">>, mode |-> "Inline"] >>

\* Vec<Skill> owned by AppState, indexed from 0.
skills == [i \in 0..(NSkills - 1) |-> SkillPool[i + 1]]

SkillIds == {skills[i].id : i \in DOMAIN skills}

(***************************************************************************)
(* Fuzzy search (search.rs).                                               *)
(***************************************************************************)
NoMatch == -1

ToLower(c) ==
    CASE c = "J" -> "j"
      [] c = "K" -> "k"
      [] c = "F" -> "f"
      [] c = "X" -> "x"
      [] OTHER -> c

LowerText(t) == [i \in 1..Len(t) |-> ToLower(t[i])]

\* needle[i..] is a subsequence of hay[j..]
RECURSIVE IsSubseqFrom(_, _, _, _)
IsSubseqFrom(needle, hay, i, j) ==
    IF i > Len(needle) THEN TRUE
    ELSE IF j > Len(hay) THEN FALSE
    ELSE IF needle[i] = hay[j] THEN IsSubseqFrom(needle, hay, i + 1, j + 1)
    ELSE IsSubseqFrom(needle, hay, i, j + 1)

IsSubstring(needle, hay) ==
    \E k \in 0..(Len(hay) - Len(needle)) :
        \A i \in 1..Len(needle) : hay[k + i] = needle[i]

\* nucleo's Pattern::parse(query, CaseMatching::Ignore).score(text): None
\* (NoMatch) unless the query is a subsequence of the text, case ignored;
\* otherwise a score that grows with the query's length, with a bonus for a
\* contiguous match and a bonus for a match at the start of the text.
PatternScore(query, text) ==
    LET n == LowerText(query)
        h == LowerText(text)
    IN  IF ~IsSubseqFrom(n, h, 1, 1) THEN NoMatch
        ELSE 16 * Len(n)
             + (IF IsSubstring(n, h) THEN 4 ELSE 0)
             + (IF Len(h) > 0 /\ Len(n) > 0 /\ n[1] = h[1] THEN 8 ELSE 0)

\* tags.join(" ")
RECURSIVE JoinTags(_)
JoinTags(tags) ==
    IF Len(tags) = 0 THEN <<>>
    ELSE IF Len(tags) = 1 THEN tags[1]
    ELSE tags[1] \o <<" ">> \o JoinTags(Tail(tags))

\* score_skill: the best score over name, id, joined tags and description
score_skill(query, skill) ==
    LET sName == PatternScore(query, skill.name)
        sId == PatternScore(query, skill.id)
        sTags == IF Len(skill.tags) = 0 THEN NoMatch
                 ELSE PatternScore(query, JoinTags(skill.tags))
        sDesc == PatternScore(query, skill.description)
    IN  Max(Max(sName, sId), Max(sTags, sDesc))

\* A sort that leaves the matches in the order of their indices
RECURSIVE SortByScoreDesc_IndexOrder(_, _)
SortByScoreDesc_IndexOrder(rest, score) ==
    IF rest = {} THEN <<>>
    ELSE LET first == CHOOSE i \in rest : \A j \in rest : i <= j
         IN  <<first>> \o SortByScoreDesc_IndexOrder(rest \ {first}, score)

\* slice::sort_by(|a, b| b.1.cmp(&a.1)): stable, descending by score.  `rest`
\* is the set of indices still to place; the next one placed has the highest
\* score and, among equals, the lowest index (the order they were pushed).
RECURSIVE SortByScoreDesc(_, _)
SortByScoreDesc(rest, score) ==
    IF rest = {} THEN <<>>
    ELSE LET best == CHOOSE i \in rest :
                        \A j \in rest : score[i] > score[j]
                                        \/ (score[i] = score[j] /\ i <= j)
         IN  <<best>> \o SortByScoreDesc(rest \ {best}, score)

\* The indices from the last to the first
IndexRange_Descending(lo, n) == [i \in 1..(n - lo) |-> n - i]

\* (0..n).collect()
RECURSIVE IndexRange(_, _)
IndexRange(lo, n) == IF lo >= n THEN <<>> ELSE <<lo>> \o IndexRange(lo + 1, n)

filter_skills(query, sk) ==
    IF Len(query) = 0 THEN IndexRange(0, Cardinality(DOMAIN sk))
    ELSE LET score == [i \in DOMAIN sk |-> score_skill(query, sk[i])]
             matched == {i \in DOMAIN sk : score[i] /= NoMatch}
         IN  SortByScoreDesc(matched, score)

(***************************************************************************)
(* AppState operations (state.rs).  Each takes the state record and        *)
(* returns the state record after the call.                                *)
(***************************************************************************)
\* The characters the model's keyboard has, and the queries set directly.
CharKeys == {"j", "k", "/", "f", "?"}

SampleQueries == {<<>>, <<"j">>, <<"k">>, <<"K", "J">>, <<"j", "x">>, <<"?">>}

\* Option<T>: None is the empty sequence, Some(x) is <<x>>.
None == <<>>

Some(x) == <<x>>

ViewModes == {"All", "Favorites", "Recent"}

\* AppState::new(skills, config)
AppStateNew(default_view_mode, max_recent_skills) ==
    [ filtered_skills |-> IndexRange(0, NSkills),
      selected_index |-> 0,
      search_query |-> <<>>,
      view_mode |-> default_view_mode,
      input_mode |-> "Normal",
      favorites |-> {},
      recent |-> <<>>,
      max_recent_skills |-> max_recent_skills,
      should_quit |-> FALSE,
      scroll_offset |-> 0,
      active_output |-> None,
      output_panel_visible |-> FALSE,
      output_scroll_offset |-> 0 ]

\* selected_skill(): filtered_skills.get(selected_index).and_then(|idx| skills.get(idx))
selected_skill(st) ==
    IF st.selected_index < Len(st.filtered_skills)
       /\ st.filtered_skills[st.selected_index + 1] \in DOMAIN skills
    THEN Some(st.filtered_skills[st.selected_index + 1])
    ELSE None

\* A step up that stops at the first item
move_selection_up_Clamp(st) ==
    IF Len(st.filtered_skills) = 0 THEN st
    ELSE LET sel == SatSub(st.selected_index, 1)
         IN  [st EXCEPT !.selected_index = sel,
                        !.scroll_offset = IF sel < @ THEN sel ELSE @]

move_selection_up(st) ==
    IF Len(st.filtered_skills) = 0 THEN st
    ELSE LET sel == IF st.selected_index = 0
                    THEN Len(st.filtered_skills) - 1
                    ELSE st.selected_index - 1
         IN  [st EXCEPT !.selected_index = sel,
                        !.scroll_offset = IF sel < @ THEN sel ELSE @]

\* move_selection_down without the wrap-around
move_selection_down_NoWrap(st) ==
    IF Len(st.filtered_skills) = 0 THEN st
    ELSE [st EXCEPT !.selected_index = @ + 1]

\* A step down that leaves the scroll offset alone on the wrap
move_selection_down_KeepScroll(st) ==
    IF Len(st.filtered_skills) = 0 THEN st
    ELSE [st EXCEPT !.selected_index = (@ + 1) % Len(st.filtered_skills)]

move_selection_down(st) ==
    IF Len(st.filtered_skills) = 0 THEN st
    ELSE LET sel == (st.selected_index + 1) % Len(st.filtered_skills)
         IN  [st EXCEPT !.selected_index = sel,
                        !.scroll_offset = IF sel = 0 THEN 0 ELSE @]

update_scroll_offset(st, visible_height) ==
    IF visible_height = 0 THEN st
    ELSE IF st.selected_index < st.scroll_offset
    THEN [st EXCEPT !.scroll_offset = st.selected_index]
    ELSE IF st.selected_index >= st.scroll_offset + visible_height
    THEN [st EXCEPT !.scroll_offset = st.selected_index - visible_height + 1]
    ELSE st

\* A page down that wraps around the end
move_selection_page_down_Wrap(st, page_size) ==
    IF Len(st.filtered_skills) = 0 THEN st
    ELSE update_scroll_offset(
             [st EXCEPT !.selected_index = (@ + page_size) % Len(st.filtered_skills)],
             page_size)

move_selection_page_down(st, page_size) ==
    IF Len(st.filtered_skills) = 0 THEN st
    ELSE LET max_index == Len(st.filtered_skills) - 1
         IN  update_scroll_offset(
                 [st EXCEPT !.selected_index = Min(@ + page_size, max_index)],
                 page_size)

move_selection_page_up(st, page_size) ==
    IF Len(st.filtered_skills) = 0 THEN st
    ELSE update_scroll_offset(
             [st EXCEPT !.selected_index = SatSub(@, page_size)], page_size)

\* The cycle taken the other way round
cycle_view_mode_Backwards(st) ==
    [st EXCEPT !.view_mode = CASE @ = "All" -> "Recent"
                               [] @ = "Recent" -> "Favorites"
                               [] @ = "Favorites" -> "All"]

cycle_view_mode(st) ==
    [st EXCEPT !.view_mode = CASE @ = "All" -> "Favorites"
                               [] @ = "Favorites" -> "Recent"
                               [] @ = "Recent" -> "All"]

\* An entry into Insert mode that types the key that asked for it
enter_insert_mode_TypesSlash(st) ==
    [st EXCEPT !.input_mode = "Insert", !.search_query = Append(@, "/")]

enter_insert_mode(st) == [st EXCEPT !.input_mode = "Insert"]

\* A return to Normal mode that leaves the application
enter_normal_mode_Quit(st) ==
    [st EXCEPT !.input_mode = "Normal", !.should_quit = TRUE]

\* A return to Normal mode that drops the search text
enter_normal_mode_ClearSearch(st) ==
    [st EXCEPT !.input_mode = "Normal", !.search_query = <<>>]

enter_normal_mode(st) == [st EXCEPT !.input_mode = "Normal"]

quit(st) == [st EXCEPT !.should_quit = TRUE]

\* add_to_recent without the retain
add_to_recent_NoRetain(st, skill_id) ==
    LET inserted == <<skill_id>> \o st.recent
    IN  [st EXCEPT !.recent = IF Len(inserted) > st.max_recent_skills
                              THEN Take(inserted, st.max_recent_skills)
                              ELSE inserted]

add_to_recent(st, skill_id) ==
    LET inserted == <<skill_id>> \o Retain(st.recent, skill_id)
    IN  [st EXCEPT !.recent = IF Len(inserted) > st.max_recent_skills
                              THEN Take(inserted, st.max_recent_skills)
                              ELSE inserted]

\* filter_skills(&self.search_query, &self.skills) for every query the model
\* can hold: the collection never changes, so the ranking of a query is
\* computed once.
Queries == SeqsUpTo(CharKeys, MaxQueryLen) \cup SampleQueries

RankingTable == {<<q, filter_skills(q, skills)>> : q \in Queries}

search_filtered(query) == (CHOOSE p \in RankingTable : p[1] = query)[2]

\* Step 1 of apply_view_filter: the indices the view mode admits, in
\* collection order.
view_filtered(st) ==
    LET admitted(i) ==
            CASE st.view_mode = "All" -> TRUE
              [] st.view_mode = "Favorites" -> skills[i].id \in st.favorites
              [] st.view_mode = "Recent" ->
                    skills[i].id \in Range(Take(st.recent, st.max_recent_skills))
    IN  SelectSeq(IndexRange(0, NSkills), admitted)

\* apply_view_filter walking the view-admitted indices and keeping those the
\* search matched, which loses the ranking order
apply_view_filter_ViewOrder(st) ==
    LET vf == view_filtered(st)
        fs == IF Len(st.search_query) = 0 THEN vf
              ELSE SelectSeq(vf, LAMBDA idx : Contains(search_filtered(st.search_query), idx))
    IN  [st EXCEPT !.filtered_skills = fs,
                   !.selected_index = 0,
                   !.scroll_offset = 0]

apply_view_filter(st) ==
    LET vf == view_filtered(st)
        fs == IF Len(st.search_query) = 0 THEN vf
              ELSE SelectSeq(search_filtered(st.search_query),
                             LAMBDA idx : Contains(vf, idx))
    IN  [st EXCEPT !.filtered_skills = fs,
                   !.selected_index = 0,
                   !.scroll_offset = 0]

set_search_query(st, query) == apply_view_filter([st EXCEPT !.search_query = query])

append_to_search(st, ch) == apply_view_filter([st EXCEPT !.search_query = Append(@, ch)])

remove_from_search(st) ==
    IF Len(st.search_query) /= 0
    THEN apply_view_filter(
             [st EXCEPT !.search_query = SubSeq(@, 1, Len(@) - 1)])
    ELSE st

\* A panel shown at the offset the last one was left at
show_output_panel_KeepScroll(st, output) ==
    [st EXCEPT !.active_output = Some(output),
               !.output_panel_visible = TRUE]

show_output_panel(st, output) ==
    [st EXCEPT !.active_output = Some(output),
               !.output_panel_visible = TRUE,
               !.output_scroll_offset = 0]

\* A panel hidden with its output kept
hide_output_panel_KeepOutput(st) == [st EXCEPT !.output_panel_visible = FALSE]

hide_output_panel(st) ==
    [st EXCEPT !.output_panel_visible = FALSE,
               !.active_output = None]

\* A scroll up that moves the selection of the list as well
scroll_output_up_MovesSelection(st) ==
    [st EXCEPT !.output_scroll_offset = SatSub(@, 1),
               !.selected_index = SatSub(@, 1)]

scroll_output_up(st) == [st EXCEPT !.output_scroll_offset = SatSub(@, 1)]

\* A scroll down that never stops
scroll_output_down_NoCap(st) == [st EXCEPT !.output_scroll_offset = @ + 1]

\* A text is kept as its number of lines (str::lines().count()); the empty
\* string has 0 lines and every other string at least 1.
scroll_output_down(st) ==
    LET max_offset ==
            IF st.active_output /= None
            THEN LET output == st.active_output[1]
                     stdout_lines == output.stdout_lines
                     stderr_lines == IF output.stderr_lines = 0 THEN 0
                                     ELSE output.stderr_lines + 1
                 IN  SatSub(stdout_lines + stderr_lines, OUTPUT_VISIBLE_HEIGHT)
            ELSE 0
    IN  IF st.output_scroll_offset < max_offset
        THEN [st EXCEPT !.output_scroll_offset = @ + 1]
        ELSE st

(***************************************************************************)
(* Key mapping (input.rs) and event handling (app.rs).                     *)
(***************************************************************************)
Key(code, ch) == [code |-> code, ch |-> ch]

Keys ==
    {Key(c, "") : c \in {"Esc", "Enter", "Tab", "Up", "Down", "PageUp",
                         "PageDown", "Backspace"}}
    \cup {Key("Char", c) : c \in CharKeys}

Event(type, ch) == [type |-> type, ch |-> ch]

map_key_event(key, input_mode) ==
    IF input_mode = "Normal"
    THEN CASE key = Key("Char", "j") -> Some(Event("MoveDown", ""))
           [] key = Key("Char", "k") -> Some(Event("MoveUp", ""))
           [] key = Key("Char", "/") -> Some(Event("EnterInsertMode", ""))
           [] key = Key("Char", "f") -> Some(Event("ToggleFavorite", ""))
           [] key = Key("Char", "?") -> Some(Event("ShowHelp", ""))
           [] key.code = "Up" -> Some(Event("MoveUp", ""))
           [] key.code = "Down" -> Some(Event("MoveDown", ""))
           [] key.code = "Esc" -> Some(Event("Quit", ""))
           [] key.code = "Enter" -> Some(Event("Enter", ""))
           [] key.code = "Tab" -> Some(Event("Tab", ""))
           [] key.code = "PageUp" -> Some(Event("PageUp", ""))
           [] key.code = "PageDown" -> Some(Event("PageDown", ""))
           [] OTHER -> None
    ELSE CASE key.code = "Esc" -> Some(Event("EnterNormalMode", ""))
           [] key.code = "Backspace" -> Some(Event("Backspace", ""))
           [] key.code = "Char" -> Some(Event("CharInput", key.ch))
           [] key.code = "Up" -> Some(Event("MoveUp", ""))
           [] key.code = "Down" -> Some(Event("MoveDown", ""))
           [] key.code = "Enter" -> Some(Event("Enter", ""))
           [] key.code = "Tab" -> Some(Event("Tab", ""))
           [] key.code = "PageUp" -> Some(Event("PageUp", ""))
           [] key.code = "PageDown" -> Some(Event("PageDown", ""))
           [] OTHER -> None

\* SkillOutput (output.rs:43-54).  The texts are kept as their line counts,
\* the exit code as an Option.
SkillOutput(stdout_lines, stderr_lines, exit_code, truncated) ==
    [stdout_lines |-> stdout_lines, stderr_lines |-> stderr_lines,
     exit_code |-> exit_code, truncated |-> truncated]

\* What an execution started by Enter can come to: SkillContext::build
\* fails, the runner returns an error, or the runner returns (for an inline
\* skill with the captured output).
SampleOutputs ==
    { SkillOutput(OUTPUT_VISIBLE_HEIGHT + 2, 0, Some(0), FALSE),
      SkillOutput(1, OUTPUT_VISIBLE_HEIGHT, Some(1), FALSE),
      SkillOutput(0, 0, None, TRUE) }

ExecOutcomes ==
    {[kind |-> k, output |-> SkillOutput(0, 0, None, FALSE)] : k \in {"ctx_err", "exec_err"}}
    \cup {[kind |-> "ok", output |-> o] : o \in SampleOutputs}

\* An Enter arm that records a skill whose execution failed
handle_enter_RecentOnError(st, outcome) ==
    IF selected_skill(st) = None THEN st
    ELSE LET idx == selected_skill(st)[1]
             skill_id == skills[idx].id
             ui_mode == skills[idx].mode
         IN  IF outcome.kind = "ctx_err" THEN st
             ELSE IF ui_mode = "Inline"
             THEN IF outcome.kind = "ok"
                  THEN show_output_panel(add_to_recent(st, skill_id), outcome.output)
                  ELSE show_output_panel(add_to_recent(st, skill_id),
                                         SkillOutput(0, 1, None, FALSE))
             ELSE add_to_recent(st, skill_id)

\* An Enter arm that gives up the application when no context can be built
handle_enter_QuitOnContextError(st, outcome) ==
    IF selected_skill(st) = None THEN st
    ELSE LET idx == selected_skill(st)[1]
             skill_id == skills[idx].id
             ui_mode == skills[idx].mode
         IN  IF outcome.kind = "ctx_err" THEN quit(st)
             ELSE IF ui_mode = "Inline"
             THEN IF outcome.kind = "ok"
                  THEN show_output_panel(add_to_recent(st, skill_id), outcome.output)
                  ELSE show_output_panel(st, SkillOutput(0, 1, None, FALSE))
             ELSE IF outcome.kind = "ok"
                  THEN add_to_recent(st, skill_id)
                  ELSE st

\* An Enter arm that gives up the application when the execution fails
handle_enter_QuitOnError(st, outcome) ==
    IF selected_skill(st) = None THEN st
    ELSE LET idx == selected_skill(st)[1]
             skill_id == skills[idx].id
             ui_mode == skills[idx].mode
         IN  IF outcome.kind = "ctx_err" THEN st
             ELSE IF ui_mode = "Inline"
             THEN IF outcome.kind = "ok"
                  THEN show_output_panel(add_to_recent(st, skill_id), outcome.output)
                  ELSE quit(show_output_panel(st, SkillOutput(0, 1, None, FALSE)))
             ELSE IF outcome.kind = "ok"
                  THEN add_to_recent(st, skill_id)
                  ELSE quit(st)

\* The Enter arm of handle_event (app.rs:135-228)
handle_enter(st, outcome) ==
    IF selected_skill(st) = None THEN st
    ELSE LET idx == selected_skill(st)[1]
             skill_id == skills[idx].id
             ui_mode == skills[idx].mode
         IN  IF outcome.kind = "ctx_err" THEN st
             ELSE IF ui_mode = "Inline"
             THEN IF outcome.kind = "ok"
                  THEN show_output_panel(add_to_recent(st, skill_id), outcome.output)
                  ELSE show_output_panel(st, SkillOutput(0, 1, None, FALSE))
             ELSE IF outcome.kind = "ok"
                  THEN add_to_recent(st, skill_id)
                  ELSE st

handle_event(event, st, outcome) ==
    IF st.output_panel_visible
    THEN CASE event.type = "Quit" -> hide_output_panel(st)
           [] event.type = "MoveUp" \/ event = Event("CharInput", "k") ->
                scroll_output_up(st)
           [] event.type = "MoveDown" \/ event = Event("CharInput", "j") ->
                scroll_output_down(st)
           [] OTHER -> st
    ELSE CASE event.type = "Quit" ->
                IF Len(st.search_query) /= 0
                THEN apply_view_filter(set_search_query(st, <<>>))
                ELSE quit(st)
           [] event.type = "MoveUp" -> move_selection_up(st)
           [] event.type = "MoveDown" -> move_selection_down(st)
           [] event.type = "CharInput" -> append_to_search(st, event.ch)
           [] event.type = "Backspace" -> remove_from_search(st)
           [] event.type = "PageDown" -> move_selection_page_down(st, DEFAULT_PAGE_SIZE)
           [] event.type = "PageUp" -> move_selection_page_up(st, DEFAULT_PAGE_SIZE)
           [] event.type = "Enter" -> handle_enter(st, outcome)
           [] event.type = "Tab" -> apply_view_filter(cycle_view_mode(st))
           [] event.type = "EnterInsertMode" -> enter_insert_mode(st)
           [] event.type = "EnterNormalMode" -> enter_normal_mode(st)
           [] event.type = "ToggleFavorite" -> st
           [] event.type = "ShowHelp" -> st

(***************************************************************************)
(* OutputBuffer (skills/output.rs).                                        *)
(***************************************************************************)
Bytes == {0, 1}

\* OutputBuffer::with_limit(size_limit)
with_limit(size_limit) ==
    [buffer |-> <<>>, truncated |-> FALSE, size_limit |-> size_limit]

\* append that takes the whole slice whenever any room is left
append_NoSlice(b, data) ==
    IF Len(b.buffer) >= b.size_limit
    THEN [b EXCEPT !.truncated = TRUE]
    ELSE IF Len(data) <= b.size_limit - Len(b.buffer)
         THEN [b EXCEPT !.buffer = @ \o data]
         ELSE [b EXCEPT !.buffer = @ \o data, !.truncated = TRUE]

\* OutputBuffer::append(&mut self, data)
append(b, data) ==
    IF Len(b.buffer) >= b.size_limit
    THEN [b EXCEPT !.truncated = TRUE]
    ELSE LET remaining == b.size_limit - Len(b.buffer)
         IN  IF Len(data) <= remaining
             THEN [b EXCEPT !.buffer = @ \o data]
             ELSE [b EXCEPT !.buffer = @ \o SubSeq(data, 1, remaining),
                            !.truncated = TRUE]

(***************************************************************************)
(* Skill discovery (skills/loader.rs).  A discovery root is a record       *)
(* [exists, files]: files is what the walk of the root yields, in walk     *)
(* order, each entry the id of the manifest in a pane-skill.yaml file, or  *)
(* "BAD" for a file that from_yaml_file rejects.                           *)
(***************************************************************************)
Tiers == <<"System", "User", "Project">>

ManifestIds == {"x", "y"}

FileEntries == ManifestIds \cup {"BAD"}

\* The Skill that discover_in_directory builds from the k-th file of a
\* root.  The manifest's name and the manifest path are particular to the
\* file.
SkillOf(source, k, id) ==
    [id |-> id, name |-> <<"name", source, k>>, source |-> source,
     manifest_path |-> <<source, k>>]

\* A discovery of a root that gives up at the first manifest that fails
discover_in_directory_AbortOnBad(root, source) ==
    IF ~root.exists \/ \E k \in 1..Len(root.files) : root.files[k] = "BAD"
    THEN <<>>
    ELSE [n \in 1..Len(root.files) |-> SkillOf(source, n, root.files[n])]

\* discover_in_directory(path, source)
discover_in_directory(root, source) ==
    IF ~root.exists THEN <<>>
    ELSE LET valid == SelectSeq([k \in 1..Len(root.files) |-> k],
                                LAMBDA k : root.files[k] /= "BAD")
         IN  [n \in 1..Len(valid) |-> SkillOf(source, valid[n], root.files[valid[n]])]

\* An insert that keeps the entry already there (entry().or_insert)
map_insert_KeepFirst(skill_map, skill) ==
    IF skill_map[skill.id] /= None THEN skill_map
    ELSE [skill_map EXCEPT ![skill.id] = Some(skill)]

\* HashMap::insert(id, skill)
map_insert(skill_map, skill) == [skill_map EXCEPT ![skill.id] = Some(skill)]

\* The inner loop of discover_skills over the skills of one root.
RECURSIVE insert_all(_, _)
insert_all(skill_map, found) ==
    IF Len(found) = 0 THEN skill_map
    ELSE insert_all(map_insert(skill_map, Head(found)), Tail(found))

(***************************************************************************)
(* Manifest validation (skills/manifest.rs).  A manifest is the record of  *)
(* its four required texts; validate returns "Ok" or the error it bails    *)
(* with.                                                                   *)
(***************************************************************************)
LowerLetters ==
    {"a", "b", "c", "d", "e", "f", "g", "h", "i", "j", "k", "l", "m",
     "n", "o", "p", "q", "r", "s", "t", "u", "v", "w", "x", "y", "z"}

Digits == {"0", "1", "2", "3", "4", "5", "6", "7", "8", "9"}

\* Regex ^[a-z0-9-]+$ on id
id_regex_is_match(id) ==
    /\ Len(id) >= 1
    /\ \A i \in 1..Len(id) : id[i] \in LowerLetters \cup Digits \cup {"-"}

\* SkillManifest::validate(&self)
validate(manifest) ==
    IF Len(manifest.id) = 0 THEN "Skill id cannot be empty"
    ELSE IF Len(manifest.name) = 0 THEN "Skill name cannot be empty"
    ELSE IF Len(manifest.description) = 0 THEN "Skill description cannot be empty"
    ELSE IF Len(manifest.exec) = 0 THEN "Skill exec cannot be empty"
    ELSE IF ~id_regex_is_match(manifest.id) THEN "Invalid skill id"
    ELSE "Ok"

\* The characters of the manifests tried, and the texts tried for name,
\* description and exec.
ManifestChars == {"a", "7", "-", "A", " "}

FieldTexts == {<<>>, <<" ">>, <<"a">>, <<" ", "a", " ">>}

Manifests ==
    [id : SeqsUpTo(ManifestChars, MaxIdLen), name : FieldTexts,
     description : FieldTexts, exec : FieldTexts]

\* The orders in which a walk can yield n files.
WalkOrders(n) ==
    {p \in [1..n -> 1..n] : \A i, j \in 1..n : i /= j => p[i] /= p[j]}

\* discover_in_directory when WalkDir yields the files of the root in the
\* order p: the k-th file of the root keeps its manifest and its path.
discover_in_walk_order(root, source, p) ==
    IF ~root.exists THEN <<>>
    ELSE LET valid == SelectSeq(p, LAMBDA k : root.files[k] /= "BAD")
         IN  [n \in 1..Len(valid) |-> SkillOf(source, valid[n], root.files[valid[n]])]

\* The loop of discover_skills over the roots from the n-th on, each walked
\* in the order walks gives it.
RECURSIVE discover_from(_, _, _, _)
discover_from(n, roots, walks, skill_map) ==
    IF n > Len(Tiers) THEN skill_map
    ELSE LET source == Tiers[n]
             found == discover_in_walk_order(roots[source], source, walks[source])
         IN  discover_from(n + 1, roots, walks, insert_all(skill_map, found))

(***************************************************************************)
(* The execution runner (skills/runner.rs).  `run` is one call of          *)
(* execute_skill together with the terminal and the child process:         *)
(*   mode, exec         the skill's ui.mode; what the file system holds    *)
(*                      for the manifest's exec                            *)
(*   pc                 where the runner is                                *)
(*   raw_mode           the terminal's raw mode (on while the launcher     *)
(*                      owns the terminal, terminal.rs:36)                 *)
(*   suspend_entered, guard, restore_runs, path   TUI-mode bookkeeping     *)
(*   prog, cpc, crem, cstate, sigpipe, exit_code  the child: its write     *)
(*                      calls, the one it is in, the bytes that one still  *)
(*                      has to write, its state, what a write to a closed  *)
(*                      pipe does to it, the code it exits with            *)
(*   pipe, rd_open      bytes in each pipe; whether its read end is open   *)
(*   buf, consumed, eof, read_done, wait_started  inline-mode capture      *)
(*   output             the SkillOutput returned                           *)
(***************************************************************************)
Streams == {"out", "err"}

\* What validate_executable can find for exec: a path (it holds a
\* separator) that is missing, a directory or a file; or a command name
\* that is or is not a file in a directory of PATH.
ExecProbe(is_path, exists, is_file, in_path) ==
    [is_path |-> is_path, exists |-> exists, is_file |-> is_file, in_path |-> in_path]

ExecMissingPath == ExecProbe(TRUE, FALSE, FALSE, FALSE)

ExecDirectory == ExecProbe(TRUE, TRUE, FALSE, FALSE)

ExecFile == ExecProbe(TRUE, TRUE, TRUE, FALSE)

ExecUnknownCommand == ExecProbe(FALSE, FALSE, FALSE, FALSE)

ExecCommand == ExecProbe(FALSE, FALSE, FALSE, TRUE)

ExecProbes ==
    {ExecMissingPath, ExecDirectory, ExecFile, ExecUnknownCommand, ExecCommand}

WriteOps == [stream : Streams, n : 1..MaxWrite]

\* OutputBuffer::new()
OutputBufferNew == with_limit(MAX_OUTPUT_SIZE)

RunStart(mode, exec, prog, sigpipe, exit_code) ==
    [ mode |-> mode, exec |-> exec, pc |-> "start",
      raw_mode |-> TRUE, suspend_entered |-> FALSE, guard |-> FALSE,
      restore_runs |-> 0, path |-> "none",
      prog |-> prog, cpc |-> 1, crem |-> IF Len(prog) > 0 THEN prog[1].n ELSE 0,
      cstate |-> "unborn", sigpipe |-> sigpipe, exit_code |-> exit_code,
      pipe |-> [s \in Streams |-> 0], rd_open |-> [s \in Streams |-> FALSE],
      buf |-> [s \in Streams |-> OutputBufferNew],
      consumed |-> [s \in Streams |-> 0], eof |-> [s \in Streams |-> FALSE],
      read_done |-> [s \in Streams |-> FALSE], wait_started |-> FALSE,
      output |-> None ]

\* Returning Err from execute_inline drops `child`: both pipe handles close.
InlineError(r) ==
    [r EXCEPT !.pc = "error", !.rd_open = [s \in Streams |-> FALSE]]

\* validate_executable that accepts any path that exists
validate_executable_ExistsOnly(r) ==
    LET ok == IF r.exec.is_path THEN r.exec.exists ELSE r.exec.in_path
    IN  IF ok
        THEN [r EXCEPT !.pc = IF r.mode = "Tui" THEN "tui_suspend" ELSE "inl_spawn"]
        ELSE [r EXCEPT !.pc = "error", !.path = "validate_failed"]

\* validate_executable, as the first step of execute_tui / execute_inline:
\* an exec with a separator must exist and be a file, a command name must
\* be a file in a directory of PATH.
validate_executable(r) ==
    LET ok == IF r.exec.is_path
              THEN IF ~r.exec.exists THEN FALSE
                   ELSE IF ~r.exec.is_file THEN FALSE
                   ELSE TRUE
              ELSE r.exec.in_path
    IN  IF ok
        THEN [r EXCEPT !.pc = IF r.mode = "Tui" THEN "tui_suspend" ELSE "inl_spawn"]
        ELSE [r EXCEPT !.pc = "error", !.path = "validate_failed"]

\* suspend_tui(): disable_raw_mode (its error ignored), then clear the
\* screen and show the cursor; raw_ok and exec_ok say whether each succeeds.
suspend_tui(r, raw_ok, exec_ok) ==
    LET t == [r EXCEPT !.suspend_entered = TRUE,
                       !.raw_mode = IF raw_ok THEN FALSE ELSE @]
    IN  IF exec_ok
        THEN [t EXCEPT !.guard = TRUE, !.pc = "tui_spawn"]
        ELSE [t EXCEPT !.pc = "error", !.path = "suspend_failed"]

\* restore_tui(): enable_raw_mode (its error ignored), then hide the cursor
\* and clear the screen.
restore_tui(r, raw_ok) ==
    [r EXCEPT !.restore_runs = @ + 1,
              !.raw_mode = IF raw_ok THEN TRUE ELSE @]

\* cmd.status() in execute_tui: the child runs on the terminal and exits,
\* or spawning or waiting fails.
tui_status(r, ok) ==
    IF ok THEN [r EXCEPT !.pc = "tui_restore", !.cstate = "exited"]
    ELSE [r EXCEPT !.pc = "tui_return", !.path = "spawn_failed"]

\* The explicit restore_tui() call of execute_tui and its `?`.
tui_explicit_restore(r, raw_ok, exec_ok) ==
    [restore_tui(r, raw_ok) EXCEPT !.pc = "tui_return",
                                   !.path = IF exec_ok THEN "success" ELSE "restore_failed"]

\* Leaving execute_tui with the guard alive: TerminalRestoreGuard::drop
\* calls restore_tui() and ignores its result.
tui_return(r, raw_ok) ==
    LET d == IF r.guard THEN [restore_tui(r, raw_ok) EXCEPT !.guard = FALSE] ELSE r
    IN  [d EXCEPT !.pc = IF r.path = "success" THEN "done" ELSE "error"]

\* cmd.spawn() in execute_inline
inline_spawn(r, ok) ==
    IF ok
    THEN [r EXCEPT !.pc = "read_stdout", !.cstate = "running",
                   !.rd_open = [s \in Streams |-> TRUE]]
    ELSE [r EXCEPT !.pc = "error", !.path = "spawn_failed"]

\* The stream the runner reads at pc, and where it goes when that stream's
\* read_output_stream returns.
\* The two streams read in the other order
StreamAt_StderrFirst(pc) == IF pc = "read_stdout" THEN "err" ELSE "out"

StreamAt(pc) == IF pc = "read_stdout" THEN "out" ELSE "err"

AfterStream(pc) == IF pc = "read_stdout" THEN "read_stderr" ELSE "wait"

WriterClosed(r) == r.cstate \in {"exited", "killed"}

\* Whether reader.read(&mut chunk) returns now (data, or end-of-stream).
ReadReady(r, s) == r.pipe[s] > 0 \/ WriterClosed(r)

\* read_output_stream returns: the reader, and with it the read end of the
\* pipe, is dropped.
stream_finished(r, s) ==
    [r EXCEPT !.read_done[s] = TRUE, !.rd_open[s] = FALSE,
              !.pc = AfterStream(r.pc)]

\* Ending the loop as soon as the buffer is full
StopReading_WhenFull(b) == Len(b.buffer) >= b.size_limit

\* Whether the loop of read_output_stream ends after an append
StopReading(b) == b.truncated

\* One iteration of the loop of read_output_stream on stream s.
read_chunk(r, s) ==
    LET bytes_read == Min(r.pipe[s], ChunkLen)
    IN  IF bytes_read = 0
        THEN stream_finished([r EXCEPT !.eof[s] = TRUE], s)
        ELSE LET b == append(r.buf[s], [i \in 1..bytes_read |-> 0])
                 t == [r EXCEPT !.buf[s] = b,
                                !.pipe[s] = @ - bytes_read,
                                !.consumed[s] = @ + bytes_read]
             IN  IF StopReading(b) THEN stream_finished(t, s) ELSE t

\* The notice pushed onto both texts whenever either stream was truncated
build_output_NoticeBoth(r) ==
    LET so == r.buf["out"]
        se == r.buf["err"]
        truncated == so.truncated \/ se.truncated
    IN  [ stdout_len |-> Len(so.buffer), stderr_len |-> Len(se.buffer),
          stdout_notice |-> truncated, stderr_notice |-> truncated,
          exit_code |-> IF r.cstate = "exited" THEN Some(r.exit_code) ELSE None,
          truncated |-> truncated ]

\* child.wait() returns and execute_inline builds the SkillOutput.
build_output(r) ==
    LET so == r.buf["out"]
        se == r.buf["err"]
        truncated == so.truncated \/ se.truncated
    IN  [ stdout_len |-> Len(so.buffer), stderr_len |-> Len(se.buffer),
          stdout_notice |-> truncated /\ so.truncated,
          stderr_notice |-> truncated /\ se.truncated,
          exit_code |-> IF r.cstate = "exited" THEN Some(r.exit_code) ELSE None,
          truncated |-> truncated ]

inline_wait(r, ok) ==
    IF ok THEN [r EXCEPT !.pc = "done", !.output = Some(build_output(r))]
    ELSE [InlineError(r) EXCEPT !.path = "wait_failed"]

\* The child moves on to its next write call.
child_advance(r) ==
    [r EXCEPT !.cpc = @ + 1,
              !.crem = IF r.cpc + 1 <= Len(r.prog) THEN r.prog[r.cpc + 1].n ELSE 0]

\* The child's write(2) on a pipe: with the read end closed it raises
\* SIGPIPE (the child dies, or ignores it and the call fails with EPIPE);
\* otherwise it copies what fits and blocks while the pipe is full.
child_write(r) ==
    LET s == r.prog[r.cpc].stream
        w == Min(r.crem, PipeCapacity - r.pipe[s])
    IN  IF ~r.rd_open[s]
        THEN IF r.sigpipe = "die" THEN [r EXCEPT !.cstate = "killed"]
             ELSE child_advance(r)
        ELSE IF r.crem = w
             THEN child_advance([r EXCEPT !.pipe[s] = @ + w])
             ELSE [r EXCEPT !.pipe[s] = @ + w, !.crem = @ - w]

(***************************************************************************)
(* Initial states.  Each specification below runs one component; the       *)
(* variables of the others stay at their idle values.                      *)
(***************************************************************************)
AppIdle == app = AppStateNew("All", 0) /\ call = None

DiscIdle ==
    disc = [roots |-> [t \in Range(Tiers) |-> [exists |-> FALSE, files |-> <<>>]],
            pos |-> 0, skill_map |-> [id \in ManifestIds |-> None],
            collection |-> None]

BufIdle == ob = [buf |-> with_limit(0), appended |-> <<>>]

RunIdle == run = RunStart("Tui", ExecUnknownCommand, <<>>, "die", 0)

\* run() up to the event loop (app.rs:31-47): the configuration gives the
\* default view mode and max_recent_skills.
AppInit ==
    /\ app \in {AppStateNew(v, m) : v \in ViewModes, m \in 0..MaxRecentCfg}
    /\ call = None

\* An AppState whose favorites were set directly, as the tests of state.rs
\* do (state.rs:1269, 1345).
SampleFavorites ==
    { {}, {skills[0].id}, {skills[0].id, skills[NSkills - 1].id}, SkillIds }

StateInit ==
    /\ app \in {[AppStateNew(v, m) EXCEPT !.favorites = f] :
                    v \in ViewModes, m \in 0..MaxRecentCfg, f \in SampleFavorites}
    /\ call = None

\* The three discovery roots as discover_skills finds them.
Roots ==
    {[exists |-> FALSE, files |-> <<>>]}
    \cup {[exists |-> TRUE, files |-> f] : f \in SeqsUpTo(FileEntries, MaxFiles)}

DiscInit ==
    disc \in {[roots |-> r, pos |-> 0, skill_map |-> [id \in ManifestIds |-> None],
               collection |-> None] : r \in [Range(Tiers) -> Roots]}

BufInit == ob \in {[buf |-> with_limit(l), appended |-> <<>>] : l \in 0..MaxLimit}

RunInit ==
    \/ run \in {RunStart("Tui", e, <<>>, "die", 0) : e \in ExecProbes}
    \/ run \in {RunStart("Inline", ExecCommand, p, sp, c) :
                    p \in SeqsUpTo(WriteOps, MaxOps), sp \in {"die", "ignore"}, c \in {0, 1}}
    \/ run \in {RunStart("Inline", e, <<>>, "die", 0) : e \in ExecProbes}

(***************************************************************************)
(* The event loop (app.rs:50-66): one key is polled, mapped and handled.   *)
(***************************************************************************)
\* Only an execution has an outcome to choose.
OutcomesFor(event) ==
    IF event.type = "Enter" THEN ExecOutcomes
    ELSE {[kind |-> "ctx_err", output |-> SkillOutput(0, 0, None, FALSE)]}

KeyPress(key) ==
    /\ ~app.should_quit
    /\ LET ev == map_key_event(key, app.input_mode)
       IN  IF ev = None
           THEN app' = app
           ELSE /\ (ev[1].type = "CharInput" /\ ~app.output_panel_visible)
                      => Len(app.search_query) < MaxQueryLen
                /\ \E outcome \in OutcomesFor(ev[1]) :
                       app' = handle_event(ev[1], app, outcome)
    /\ UNCHANGED <<call, disc, ob, run>>

AppNext == \E key \in Keys : KeyPress(key)

\* The event loop with a user who, from some moment on, presses nothing but
\* Esc: `call` is None until that moment.
AnyKeyPress == call = None /\ AppNext

OnlyEscFromNow ==
    /\ call = None
    /\ call' = Some([op |-> "only_esc", arg |-> <<>>, was_at |-> 0])
    /\ UNCHANGED <<app, disc, ob, run>>

EscPress == call /= None /\ KeyPress(Key("Esc", ""))

EscNext == AnyKeyPress \/ OnlyEscFromNow \/ EscPress

(***************************************************************************)
(* AppState driven through its methods directly, in any order, as the      *)
(* tests of state.rs drive it.  `call` records the method and its          *)
(* argument; was_at is where an added id stood in the recency list (0 when  *)
(* it was not in it).                                                       *)
(***************************************************************************)
Called(op, arg, was_at) == Some([op |-> op, arg |-> arg, was_at |-> was_at])

CallSetSearchQuery ==
    /\ \E q \in SampleQueries :
          /\ app' = set_search_query(app, q)
          /\ call' = Called("set_search_query", q, 0)
    /\ UNCHANGED <<disc, ob, run>>

CallCycleViewMode ==
    /\ app' = cycle_view_mode(app)
    /\ call' = Called("cycle_view_mode", <<>>, 0)
    /\ UNCHANGED <<disc, ob, run>>

CallApplyViewFilter ==
    /\ app' = apply_view_filter(app)
    /\ call' = Called("apply_view_filter", <<>>, 0)
    /\ UNCHANGED <<disc, ob, run>>

CallAddToRecent ==
    /\ \E id \in SkillIds :
          /\ app' = add_to_recent(app, id)
          /\ call' = Called("add_to_recent", id, PosIn(app.recent, id))
    /\ UNCHANGED <<disc, ob, run>>

CallMoveSelectionDown ==
    /\ app' = move_selection_down(app)
    /\ call' = Called("move_selection_down", <<>>, 0)
    /\ UNCHANGED <<disc, ob, run>>

(***************************************************************************)
(* The selection of a filtered view moved by the four selection methods,   *)
(* the paging ones with one visible height throughout; `call` holds the    *)
(* method, that height and the index selected before the call.             *)
(***************************************************************************)
NavInit ==
    /\ app \in {set_search_query([AppStateNew(v, 0) EXCEPT !.favorites = f], q) :
                    v \in ViewModes, f \in SampleFavorites, q \in SampleQueries}
    /\ call \in {Called("new", h, 0) : h \in 0..MaxPage}

NavUp ==
    /\ app' = move_selection_up(app)
    /\ call' = Called("move_selection_up", call[1].arg, app.selected_index)
    /\ UNCHANGED <<disc, ob, run>>

NavDown ==
    /\ app' = move_selection_down(app)
    /\ call' = Called("move_selection_down", call[1].arg, app.selected_index)
    /\ UNCHANGED <<disc, ob, run>>

NavPageUp ==
    /\ app' = move_selection_page_up(app, call[1].arg)
    /\ call' = Called("move_selection_page_up", call[1].arg, app.selected_index)
    /\ UNCHANGED <<disc, ob, run>>

NavPageDown ==
    /\ app' = move_selection_page_down(app, call[1].arg)
    /\ call' = Called("move_selection_page_down", call[1].arg, app.selected_index)
    /\ UNCHANGED <<disc, ob, run>>

NavNext == NavUp \/ NavDown \/ NavPageUp \/ NavPageDown

\* The selection methods, the paging methods with a page size of their own
\* at every call, and the re-filtering methods, in any order.
ScrollInit ==
    /\ app \in {set_search_query([AppStateNew(v, 0) EXCEPT !.favorites = f], q) :
                    v \in ViewModes, f \in SampleFavorites, q \in SampleQueries}
    /\ call = Called("new", 0, 0)

ScrollUp ==
    /\ app' = move_selection_up(app)
    /\ call' = Called("move_selection_up", 0, app.selected_index)
    /\ UNCHANGED <<disc, ob, run>>

ScrollDown ==
    /\ app' = move_selection_down(app)
    /\ call' = Called("move_selection_down", 0, app.selected_index)
    /\ UNCHANGED <<disc, ob, run>>

ScrollPageUp ==
    /\ \E page_size \in 0..MaxPage :
          /\ app' = move_selection_page_up(app, page_size)
          /\ call' = Called("move_selection_page_up", page_size, app.selected_index)
    /\ UNCHANGED <<disc, ob, run>>

ScrollPageDown ==
    /\ \E page_size \in 0..MaxPage :
          /\ app' = move_selection_page_down(app, page_size)
          /\ call' = Called("move_selection_page_down", page_size, app.selected_index)
    /\ UNCHANGED <<disc, ob, run>>

ScrollSearch ==
    /\ \E q \in SampleQueries :
          /\ app' = set_search_query(app, q)
          /\ call' = Called("set_search_query", 0, app.selected_index)
    /\ UNCHANGED <<disc, ob, run>>

ScrollCycleView ==
    /\ app' = apply_view_filter(cycle_view_mode(app))
    /\ call' = Called("apply_view_filter", 0, app.selected_index)
    /\ UNCHANGED <<disc, ob, run>>

ScrollNext ==
    \/ ScrollUp
    \/ ScrollDown
    \/ ScrollPageUp
    \/ ScrollPageDown
    \/ ScrollSearch
    \/ ScrollCycleView

\* A function called on its own: `call` first holds the argument, then the
\* call with its result.
Applied(op, arg, result) == Some([op |-> op, arg |-> arg, result |-> result])

\* filter_skills called on a collection and a query of its own.
SearchQueries == SampleQueries \cup {<<c>> : c \in CharKeys}

Collections ==
    {[i \in 0..(Len(c) - 1) |-> c[i + 1]] : c \in SeqsUpTo(Range(SkillPool), NSkills)}

SearchInit ==
    call \in {Applied("search", [query |-> q, skills |-> sk], None) :
                 q \in SearchQueries, sk \in Collections}

CallFilterSkills ==
    /\ call /= None
    /\ call[1].op = "search"
    /\ call' = Applied("filter_skills", call[1].arg,
                       filter_skills(call[1].arg.query, call[1].arg.skills))
    /\ UNCHANGED <<app, disc, ob, run>>

\* A path is a sequence of units; "0xFF" is a unit that is not valid
\* Unicode, which to_string_lossy replaces by U+FFFD.
to_string_lossy(path) ==
    [i \in 1..Len(path) |-> IF path[i] = "0xFF" THEN "U+FFFD" ELSE path[i]]

SkillContext(skill_id, skill_name, cwd, git_root, project_name, config_path) ==
    [skill_id |-> skill_id, skill_name |-> skill_name, cwd |-> cwd,
     git_root |-> git_root, project_name |-> project_name,
     config_path |-> config_path, args |-> <<>>]

ContextConfig(pass_cwd, pass_git_root, pass_project_name, pass_stdin_json) ==
    [pass_cwd |-> pass_cwd, pass_git_root |-> pass_git_root,
     pass_project_name |-> pass_project_name, pass_stdin_json |-> pass_stdin_json]

\* HashMap::insert: the key is added, or its value replaced.
env_insert(env_vars, key, value) ==
    [k \in DOMAIN env_vars \cup {key} |-> IF k = key THEN value ELSE env_vars[k]]

\* The empty HashMap.
env_new == [k \in {} |-> <<>>]

\* An environment that passes the working directory whatever the flag says
prepare_environment_IgnorePassCwd(context, context_config) ==
    LET e1 == env_insert(env_new, "PANE_ID", context.skill_id)
        e2 == env_insert(e1, "PANE_NAME", context.skill_name)
        e3 == env_insert(e2, "PANE_CONFIG_PATH", to_string_lossy(context.config_path))
        e4 == env_insert(e3, "PANE_CWD", to_string_lossy(context.cwd))
        e5 == IF context_config.pass_git_root /\ context.git_root /= None
              THEN env_insert(e4, "PANE_GIT_ROOT", to_string_lossy(context.git_root[1]))
              ELSE e4
    IN  IF context_config.pass_project_name /\ context.project_name /= None
        THEN env_insert(e5, "PANE_PROJECT_NAME", context.project_name[1])
        ELSE e5

prepare_environment(context, context_config) ==
    LET e1 == env_insert(env_new, "PANE_ID", context.skill_id)
        e2 == env_insert(e1, "PANE_NAME", context.skill_name)
        e3 == env_insert(e2, "PANE_CONFIG_PATH", to_string_lossy(context.config_path))
        e4 == IF context_config.pass_cwd
              THEN env_insert(e3, "PANE_CWD", to_string_lossy(context.cwd))
              ELSE e3
        e5 == IF context_config.pass_git_root /\ context.git_root /= None
              THEN env_insert(e4, "PANE_GIT_ROOT", to_string_lossy(context.git_root[1]))
              ELSE e4
    IN  IF context_config.pass_project_name /\ context.project_name /= None
        THEN env_insert(e5, "PANE_PROJECT_NAME", context.project_name[1])
        ELSE e5

\* prepare_environment called on a context and the flags of a manifest, as
\* the tests of context.rs call it.
Paths == {<<"/", "w">>, <<"/", "w", "/", "0xFF">>}

ProjectNames == {<<"w">>, <<"U+FFFD">>}

SkillContexts ==
    {SkillContext(skills[0].id, <<"A">>, cwd, git_root, project_name,
                  <<"/", "c">>) :
        cwd \in Paths,
        git_root \in {None} \cup {Some(r) : r \in Paths},
        project_name \in {None} \cup {Some(n) : n \in ProjectNames}}

ContextConfigs ==
    {ContextConfig(c, g, n, j) : c \in BOOLEAN, g \in BOOLEAN,
                                 n \in BOOLEAN, j \in BOOLEAN}

ContextInit ==
    call \in {Applied("context", [context |-> c, context_config |-> f], None) :
                 c \in SkillContexts, f \in ContextConfigs}

CallPrepareEnvironment ==
    /\ call /= None
    /\ call[1].op = "context"
    /\ call' = Applied("prepare_environment", call[1].arg,
                       Some(prepare_environment(call[1].arg.context,
                                                call[1].arg.context_config)))
    /\ UNCHANGED <<app, disc, ob, run>>

\* Result<T>: Ok(value) or Err.
Ok(value) == [ok |-> TRUE, value |-> value]

Err == [ok |-> FALSE, value |-> None]

\* std::process::ExitStatus: code is Some(n) for a process that exited with
\* n, None for one ended by a signal.
ExitStatus(code) == [code |-> code]

\* ExitStatus::success
success(status) == status.code = Some(0)

\* Option::unwrap_or
unwrap_or(option, default) == IF option = None THEN default ELSE option[1]

\* `sh -c "exit n"` run with status(): the shell exits with n modulo 256, or
\* it cannot be run.
sh_exit(n, sh_ok) == IF sh_ok THEN Ok(ExitStatus(Some(n % 256))) ELSE Err

\* execute_skill, given what execute_tui or execute_inline returns.
execute_skill(mode, tui_result, inline_result, sh_ok) ==
    IF mode = "Tui" THEN tui_result
    ELSE IF ~inline_result.ok THEN Err
    ELSE sh_exit(unwrap_or(inline_result.value.exit_code, 0), sh_ok)

\* execute_skill called on a skill of either UI mode whose process exits
\* with a code or is ended by a signal, or whose execution fails.
ChildEnds == {None} \cup {Some(c) : c \in 0..MaxExitCode}

ExecuteInit ==
    call \in {Applied("skill", [mode |-> m, child |-> e, runner_ok |-> r, sh_ok |-> h],
                      None) :
                 m \in {"Tui", "Inline"}, e \in ChildEnds,
                 r \in BOOLEAN, h \in BOOLEAN}

CallExecuteSkill ==
    /\ call /= None
    /\ call[1].op = "skill"
    /\ LET a == call[1].arg
           tui_result == IF a.runner_ok THEN Ok(ExitStatus(a.child)) ELSE Err
           inline_result == IF a.runner_ok
                            THEN Ok(SkillOutput(0, 0, a.child, FALSE))
                            ELSE Err
       IN  call' = Applied("execute_skill", a,
                           Some(execute_skill(a.mode, tui_result, inline_result, a.sh_ok)))
    /\ UNCHANGED <<app, disc, ob, run>>

(***************************************************************************)
(* The claude-tips browser (skills/claude-tips/src/app.rs).  In its         *)
(* specification `app` holds the AppState of the browser.                  *)
(***************************************************************************)
Tip(title, category, text, tags) ==
    [title |-> title, category |-> category, text |-> text, tags |-> tags]

TipPool ==
    << Tip(<<"J", "k">>, None, <<"f">>, <<>>),
       Tip(<<"k">>, Some(<<"F">>), <<>>, << <<"j">>, <<"x">> >>),
       Tip(<<"x">>, Some(<<"/">>), <<"x", "j">>, << <<"K", "k">> >>) >>

\* str::contains
str_contains(text, pattern) ==
    \E i \in 0..(Len(text) - Len(pattern)) :
        SubSeq(text, i + 1, i + Len(pattern)) = pattern

\* AppState::new(tips) of the browser
TipsNew(tips) ==
    [tips |-> tips,
     filtered_tips |-> IndexRange(0, Cardinality(DOMAIN tips)),
     selected_index |-> 0,
     search_query |-> <<>>,
     search_mode |-> FALSE,
     detail_mode |-> FALSE,
     should_quit |-> FALSE]

\* A search update that leaves the selection where it was
update_search_KeepSelection(st, query) ==
    LET q == LowerText(query)
        matches(tip) ==
            \/ str_contains(LowerText(tip.title), q)
            \/ str_contains(LowerText(tip.text), q)
            \/ \E t \in 1..Len(tip.tags) : str_contains(LowerText(tip.tags[t]), q)
            \/ tip.category /= None /\ str_contains(LowerText(tip.category[1]), q)
        all == IndexRange(0, Cardinality(DOMAIN st.tips))
    IN  [st EXCEPT !.search_query = q,
                   !.filtered_tips = IF Len(q) = 0 THEN all
                                     ELSE SelectSeq(all, LAMBDA i : matches(st.tips[i]))]

update_search(st, query) ==
    LET q == LowerText(query)
        matches(tip) ==
            \/ str_contains(LowerText(tip.title), q)
            \/ str_contains(LowerText(tip.text), q)
            \/ \E t \in 1..Len(tip.tags) : str_contains(LowerText(tip.tags[t]), q)
            \/ tip.category /= None /\ str_contains(LowerText(tip.category[1]), q)
        all == IndexRange(0, Cardinality(DOMAIN st.tips))
    IN  [st EXCEPT !.search_query = q,
                   !.filtered_tips = IF Len(q) = 0 THEN all
                                     ELSE SelectSeq(all, LAMBDA i : matches(st.tips[i])),
                   !.selected_index = 0]

select_next(st) ==
    IF Len(st.filtered_tips) /= 0
    THEN [st EXCEPT !.selected_index = (@ + 1) % Len(st.filtered_tips)]
    ELSE st

select_prev(st) ==
    IF Len(st.filtered_tips) /= 0
    THEN [st EXCEPT !.selected_index = IF @ = 0 THEN Len(st.filtered_tips) - 1
                                       ELSE @ - 1]
    ELSE st

toggle_search(st) ==
    LET t == [st EXCEPT !.search_mode = ~@]
    IN  IF t.search_mode
        THEN update_search([t EXCEPT !.search_query = <<>>], <<>>)
        ELSE t

toggle_detail(st) == [st EXCEPT !.detail_mode = ~@]

\* AppState::quit of the browser
tips_quit(st) == [st EXCEPT !.should_quit = TRUE]

\* AppState::selected_tip: the index into tips, or None.
selected_tip(st) ==
    IF Len(st.filtered_tips) = 0 THEN None
    ELSE Some(st.filtered_tips[st.selected_index + 1])

\* String::pop on a copy of the query
query_pop(query) ==
    IF Len(query) = 0 THEN query ELSE SubSeq(query, 1, Len(query) - 1)

handle_key_event(st, key) ==
    CASE st.detail_mode /\ key.code = "Esc" -> toggle_detail(st)
      [] st.search_mode /\ ~st.detail_mode /\ key.code = "Char" ->
            update_search(st, Append(st.search_query, key.ch))
      [] st.search_mode /\ ~st.detail_mode /\ key.code = "Backspace" ->
            update_search(st, query_pop(st.search_query))
      [] st.search_mode /\ ~st.detail_mode /\ key.code = "Esc" -> toggle_search(st)
      [] ~st.search_mode /\ ~st.detail_mode
            /\ (key.code = "Down" \/ key = Key("Char", "j")) -> select_next(st)
      [] ~st.search_mode /\ ~st.detail_mode
            /\ (key.code = "Up" \/ key = Key("Char", "k")) -> select_prev(st)
      [] ~st.search_mode /\ ~st.detail_mode /\ key.code = "Enter" -> toggle_detail(st)
      [] ~st.search_mode /\ ~st.detail_mode /\ key = Key("Char", "/") ->
            toggle_search(st)
      [] ~st.search_mode /\ ~st.detail_mode /\ key.code = "Esc" -> tips_quit(st)
      [] OTHER -> st

TipsKeys ==
    {Key(c, "") : c \in {"Esc", "Enter", "Up", "Down", "Backspace", "Tab"}}
    \cup {Key("Char", c) : c \in {"j", "k", "/", "J", "x"}}

\* The tips files tried: main refuses an empty one.
TipCollections ==
    {[i \in 0..(n - 1) |-> TipPool[i + 1]] : n \in 1..NTips}

TipsInit ==
    /\ app \in {TipsNew(tips) : tips \in TipCollections}
    /\ call = None

\* The event loop of the browser (main.rs:80-93): one key is read and
\* handled, until the quit flag is set.
TipsKeyPress(key) ==
    /\ ~app.should_quit
    /\ (app.search_mode /\ ~app.detail_mode /\ key.code = "Char")
          => Len(app.search_query) < MaxQueryLen
    /\ app' = handle_key_event(app, key)
    /\ UNCHANGED <<call, disc, ob, run>>

TipsNext == \E key \in TipsKeys : TipsKeyPress(key)

ManifestInit == call \in {Applied("manifest", m, None) : m \in Manifests}

CallValidate ==
    /\ call /= None
    /\ call[1].op = "manifest"
    /\ call' = Applied("validate", call[1].arg, validate(call[1].arg))
    /\ UNCHANGED <<app, disc, ob, run>>

StateNext ==
    \/ CallSetSearchQuery
    \/ CallCycleViewMode
    \/ CallApplyViewFilter
    \/ CallAddToRecent
    \/ CallMoveSelectionDown

(***************************************************************************)
(* discover_skills: the roots are processed in the order of Tiers, then    *)
(* the map's values are collected in an order the HashMap chooses.         *)
(***************************************************************************)
DiscoverRoot ==
    /\ disc.pos < Len(Tiers)
    /\ LET source == Tiers[disc.pos + 1]
           found == discover_in_directory(disc.roots[source], source)
       IN  disc' = [disc EXCEPT !.pos = @ + 1,
                                !.skill_map = insert_all(@, found)]
    /\ UNCHANGED <<app, call, ob, run>>

\* skill_map.into_values().collect()
Collect ==
    /\ disc.pos = Len(Tiers)
    /\ disc.collection = None
    /\ LET present == {id \in ManifestIds : disc.skill_map[id] /= None}
       IN  \E order \in [1..Cardinality(present) -> present] :
               /\ \A i, j \in DOMAIN order : i /= j => order[i] /= order[j]
               /\ disc' = [disc EXCEPT !.collection =
                              Some([i \in DOMAIN order |-> disc.skill_map[order[i]][1]])]
    /\ UNCHANGED <<app, call, ob, run>>

DiscNext == DiscoverRoot \/ Collect

(***************************************************************************)
(* An OutputBuffer and a caller appending slices to it.                    *)
(***************************************************************************)
BufAppend ==
    /\ \E data \in SeqsUpTo(Bytes, MaxData) :
          /\ Len(ob.appended) + Len(data) <= MaxAppended
          /\ ob' = [buf |-> append(ob.buf, data), appended |-> ob.appended \o data]
    /\ UNCHANGED <<app, call, disc, run>>

BufNext == BufAppend

(***************************************************************************)
(* One execution: the runner's steps and the child's steps.                *)
(***************************************************************************)
Validate ==
    /\ run.pc = "start"
    /\ run' = validate_executable(run)
    /\ UNCHANGED <<app, call, disc, ob>>

TuiSuspend ==
    /\ run.pc = "tui_suspend"
    /\ \E raw_ok, exec_ok \in BOOLEAN : run' = suspend_tui(run, raw_ok, exec_ok)
    /\ UNCHANGED <<app, call, disc, ob>>

TuiStatus ==
    /\ run.pc = "tui_spawn"
    /\ \E ok \in BOOLEAN : run' = tui_status(run, ok)
    /\ UNCHANGED <<app, call, disc, ob>>

TuiRestore ==
    /\ run.pc = "tui_restore"
    /\ \E raw_ok, exec_ok \in BOOLEAN : run' = tui_explicit_restore(run, raw_ok, exec_ok)
    /\ UNCHANGED <<app, call, disc, ob>>

TuiReturn ==
    /\ run.pc = "tui_return"
    /\ \E raw_ok \in BOOLEAN : run' = tui_return(run, raw_ok)
    /\ UNCHANGED <<app, call, disc, ob>>

InlineSpawn ==
    /\ run.pc = "inl_spawn"
    /\ \E ok \in BOOLEAN : run' = inline_spawn(run, ok)
    /\ UNCHANGED <<app, call, disc, ob>>

ReadChunk ==
    /\ run.pc \in {"read_stdout", "read_stderr"}
    /\ ReadReady(run, StreamAt(run.pc))
    /\ run' = read_chunk(run, StreamAt(run.pc))
    /\ UNCHANGED <<app, call, disc, ob>>

\* reader.read fails: read_output_stream and execute_inline return Err.
ReadFail ==
    /\ run.pc \in {"read_stdout", "read_stderr"}
    /\ ReadReady(run, StreamAt(run.pc))
    /\ run' = [InlineError(run) EXCEPT !.path = "read_failed"]
    /\ UNCHANGED <<app, call, disc, ob>>

Wait ==
    /\ run.pc = "wait"
    /\ \/ /\ ~run.wait_started
          /\ run' = [run EXCEPT !.wait_started = TRUE]
       \/ /\ run.wait_started
          /\ WriterClosed(run)
          /\ \E ok \in BOOLEAN : run' = inline_wait(run, ok)
    /\ UNCHANGED <<app, call, disc, ob>>

ChildWrite ==
    /\ run.cstate = "running"
    /\ run.cpc <= Len(run.prog)
    /\ LET s == run.prog[run.cpc].stream
       IN  ~run.rd_open[s] \/ run.pipe[s] < PipeCapacity
    /\ run' = child_write(run)
    /\ UNCHANGED <<app, call, disc, ob>>

ChildExit ==
    /\ run.cstate = "running"
    /\ run.cpc > Len(run.prog)
    /\ run' = [run EXCEPT !.cstate = "exited"]
    /\ UNCHANGED <<app, call, disc, ob>>

RunnerStep ==
    \/ Validate
    \/ TuiSuspend
    \/ TuiStatus
    \/ TuiRestore
    \/ TuiReturn
    \/ InlineSpawn
    \/ ReadChunk
    \/ Wait

ChildStep == ChildWrite \/ ChildExit

RunNext == RunnerStep \/ ReadFail \/ ChildStep

(***************************************************************************)
(* Specifications.                                                         *)
(***************************************************************************)
Init == AppInit /\ DiscIdle /\ BufIdle /\ RunIdle

Next == AppNext

Spec == Init /\ [][Next]_vars

InitState == StateInit /\ DiscIdle /\ BufIdle /\ RunIdle

SpecState == InitState /\ [][StateNext]_vars

InitDiscover == AppIdle /\ DiscInit /\ BufIdle /\ RunIdle

SpecDiscover == InitDiscover /\ [][DiscNext]_vars

InitBuffer == AppIdle /\ DiscIdle /\ BufInit /\ RunIdle

SpecBuffer == InitBuffer /\ [][BufNext]_vars

InitRunner == AppIdle /\ DiscIdle /\ BufIdle /\ RunInit

SpecRunner == InitRunner /\ [][RunNext]_vars

InitManifest ==
    app = AppStateNew("All", 0) /\ ManifestInit /\ DiscIdle /\ BufIdle /\ RunIdle

SpecManifest == InitManifest /\ [][CallValidate]_vars

InitSearch ==
    app = AppStateNew("All", 0) /\ SearchInit /\ DiscIdle /\ BufIdle /\ RunIdle

SpecSearch == InitSearch /\ [][CallFilterSkills]_vars

InitNav == NavInit /\ DiscIdle /\ BufIdle /\ RunIdle

SpecNav == InitNav /\ [][NavNext]_vars

InitContext ==
    app = AppStateNew("All", 0) /\ ContextInit /\ DiscIdle /\ BufIdle /\ RunIdle

SpecContext == InitContext /\ [][CallPrepareEnvironment]_vars

InitExecute ==
    app = AppStateNew("All", 0) /\ ExecuteInit /\ DiscIdle /\ BufIdle /\ RunIdle

SpecExecute == InitExecute /\ [][CallExecuteSkill]_vars

InitTips == TipsInit /\ DiscIdle /\ BufIdle /\ RunIdle

SpecTips == InitTips /\ [][TipsNext]_vars

InitScroll == ScrollInit /\ DiscIdle /\ BufIdle /\ RunIdle

SpecScroll == InitScroll /\ [][ScrollNext]_vars

SpecEsc == Init /\ [][EscNext]_vars

\* The user who presses only Esc keeps pressing it.
FairSpecEsc == SpecEsc /\ WF_vars(EscPress)

\* The runner is a running thread and the child a running process: a step
\* of either that stays possible is eventually taken.
FairSpecRunner == SpecRunner /\ WF_vars(RunnerStep) /\ WF_vars(ChildStep)

(***************************************************************************)
(* Properties.                                                             *)
(***************************************************************************)

\* C1: in the event loop, after any sequence of handled events, the
\* selection index is below the length of the filtered view when the view
\* is non-empty, and is 0 when the view is empty.
C1_SelectionInBounds ==
    /\ Len(app.filtered_skills) > 0 => app.selected_index < Len(app.filtered_skills)
    /\ Len(app.filtered_skills) = 0 => app.selected_index = 0

\* The selection stands on the last item of a searched view of several items.
C1_Witness ==
    /\ Len(app.search_query) > 0
    /\ Len(app.filtered_skills) >= 2
    /\ app.selected_index = Len(app.filtered_skills) - 1

\* The tier precedence, low to high.
TierRank(source) == CHOOSE n \in 1..Len(Tiers) : Tiers[n] = source

\* The skills whose manifests load, read off the roots.
FoundSkills ==
    {SkillOf(t, k, disc.roots[t].files[k]) :
        <<t, k>> \in {p \in Range(Tiers) \X (1..MaxFiles) :
                        /\ disc.roots[p[1]].exists
                        /\ p[2] <= Len(disc.roots[p[1]].files)
                        /\ disc.roots[p[1]].files[p[2]] /= "BAD"}}

\* C2: the collection discover_skills returns holds at most one skill per
\* identifier; every identifier found has its entry, taken whole from one
\* manifest of the highest-precedence tier in which the identifier was found.
C2_UniqueHighestTier ==
    disc.collection /= None =>
        LET c == disc.collection[1]
        IN  /\ \A i, j \in 1..Len(c) : i /= j => c[i].id /= c[j].id
            /\ \A i \in 1..Len(c) :
                  /\ c[i] \in FoundSkills
                  /\ \A f \in FoundSkills :
                        f.id = c[i].id => TierRank(f.source) <= TierRank(c[i].source)
            /\ \A f \in FoundSkills : \E i \in 1..Len(c) : c[i].id = f.id

\* One identifier was found in all three tiers and the collection is built.
C2_Witness ==
    /\ disc.collection /= None
    /\ \E id \in ManifestIds :
          \A t \in Range(Tiers) : \E f \in FoundSkills : f.id = id /\ f.source = t

\* C3: the length of an OutputBuffer never exceeds its ceiling; once the
\* length equals the ceiling an append changes neither length nor content;
\* the truncation flag is never reset.
C3_BufferBounded ==
    /\ [](Len(ob.buf.buffer) <= ob.buf.size_limit)
    /\ [][Len(ob.buf.buffer) = ob.buf.size_limit => ob'.buf.buffer = ob.buf.buffer]_vars
    /\ [][ob.buf.truncated => ob'.buf.truncated]_vars

\* A buffer with a positive ceiling is full, truncated, and was given more
\* bytes than it holds.
C3_Witness ==
    /\ ob.buf.size_limit >= 2
    /\ Len(ob.buf.buffer) = ob.buf.size_limit
    /\ ob.buf.truncated
    /\ Len(ob.appended) > ob.buf.size_limit + 1

\* C4: after any sequence of add_to_recent calls the recency list has no
\* identifier twice and is no longer than max_recent_skills; re-adding an
\* identifier of the list moves it to the front, keeps the order of the
\* others and keeps the length.
C4_RecentBounded ==
    /\ [](NoDuplicates(app.recent) /\ Len(app.recent) <= app.max_recent_skills)
    /\ [][(call' /= None /\ call'[1].op = "add_to_recent" /\ Contains(app.recent, call'[1].arg))
            => /\ Len(app'.recent) = Len(app.recent)
               /\ app'.recent[1] = call'[1].arg
               /\ Retain(app'.recent, call'[1].arg) = Retain(app.recent, call'[1].arg)]_vars

\* An identifier that was in a full list of several entries, and not at
\* its front, has been re-added.
C4_Witness ==
    /\ call /= None
    /\ call[1].op = "add_to_recent"
    /\ call[1].was_at >= 2
    /\ Len(app.recent) = app.max_recent_skills
    /\ Len(app.recent) >= 2

\* The indices a view mode admits.
Admitted ==
    {i \in DOMAIN skills :
        \/ app.view_mode = "All"
        \/ app.view_mode = "Favorites" /\ skills[i].id \in app.favorites
        \/ /\ app.view_mode = "Recent"
           /\ \E k \in 1..Len(app.recent) :
                 k <= app.max_recent_skills /\ app.recent[k] = skills[i].id}

FilterApplied ==
    /\ call /= None
    /\ call[1].op \in {"apply_view_filter", "set_search_query"}

\* C5: apply_view_filter leaves the view-admitted indices in collection
\* order when the query is empty, the fuzzy-search ranking without the
\* non-admitted indices and in ranking order when it is not, and sets the
\* selection index and the list scroll offset to 0.
C5_FilterComposition ==
    FilterApplied =>
        LET f == app.filtered_skills
            rk == filter_skills(app.search_query, skills)
        IN  /\ NoDuplicates(f)
            /\ Len(app.search_query) = 0 =>
                  /\ Range(f) = Admitted
                  /\ \A a, b \in 1..Len(f) : a < b => f[a] < f[b]
            /\ Len(app.search_query) > 0 =>
                  /\ Range(f) = Admitted \cap Range(rk)
                  /\ \A a, b \in 1..Len(f) : a < b => PosIn(rk, f[a]) < PosIn(rk, f[b])
            /\ app.selected_index = 0
            /\ app.scroll_offset = 0

\* A searched Favorites view holds two skills that the ranking puts in the
\* reverse of collection order.
C5_Witness ==
    /\ FilterApplied
    /\ app.view_mode = "Favorites"
    /\ Len(app.search_query) > 0
    /\ Len(app.filtered_skills) >= 2
    /\ app.filtered_skills[1] > app.filtered_skills[2]
    /\ Cardinality(Admitted) < NSkills

Returned == run.pc \in {"done", "error"}

\* execute_inline has both streams behind it: it waits or has returned Ok.
Drained == run.mode = "Inline" /\ run.pc \in {"wait", "done"}

\* C6: in TUI mode, once suspend_tui has been entered, restore_tui has run
\* by the time execute_tui returns, on every way out.
C6_RestoredOnEveryExit ==
    (run.mode = "Tui" /\ Returned /\ run.suspend_entered) => run.restore_runs >= 1

\* C7: on every exit path of execute_tui behind the guard (success,
\* spawn/wait failure, failure of the explicit restore) restore_tui has run
\* exactly once.
C7_RestoredExactlyOnce ==
    (run.mode = "Tui" /\ Returned
        /\ run.path \in {"success", "spawn_failed", "restore_failed"})
    => run.restore_runs = 1

\* C8: every inline execution eventually returns.
C8_InlineReturns == (run.mode = "Inline") ~> Returned

\* C9 as stated: when the runner waits on the child, each stream has been
\* read to end-of-stream, and a stream that gave more bytes than the ceiling
\* is flagged truncated.
C9_ReadToEndOfStream ==
    Drained =>
        \A s \in Streams :
            /\ run.eof[s]
            /\ run.consumed[s] > MAX_OUTPUT_SIZE => run.buf[s].truncated

\* C9 as amended: when the runner waits on the child, each stream has been
\* read either to end-of-stream, all its bytes captured, or up to the read
\* that exceeded the ceiling: that read's excess bytes are discarded, the
\* stream is flagged truncated and nothing more is read from it.
C9_ReadToEndOrCeiling ==
    Drained =>
        \A s \in Streams :
            /\ run.read_done[s]
            /\ run.eof[s] /= run.buf[s].truncated
            /\ run.eof[s] =>
                  /\ run.pipe[s] = 0
                  /\ run.consumed[s] = Len(run.buf[s].buffer)
                  /\ run.consumed[s] <= MAX_OUTPUT_SIZE
            /\ run.buf[s].truncated =>
                  /\ Len(run.buf[s].buffer) = MAX_OUTPUT_SIZE
                  /\ run.consumed[s] > MAX_OUTPUT_SIZE
                  /\ run.consumed[s] <= MAX_OUTPUT_SIZE + ChunkLen

\* stdout hit the ceiling with bytes of it left unread in the pipe, stderr
\* was read to its end, and the runner returned.
C9_Witness ==
    /\ run.pc = "done"
    /\ run.buf["out"].truncated
    /\ ~run.eof["out"]
    /\ run.eof["err"]
    /\ run.consumed["err"] > 0

\* C10: no byte of stderr is read before the reading of stdout has
\* finished, and the wait for the child starts only after the reading of
\* stderr has finished.
C10_DrainOrder ==
    /\ (run.consumed["err"] > 0 \/ run.eof["err"]) => run.read_done["out"]
    /\ run.wait_started => (run.read_done["out"] /\ run.read_done["err"])

\* Both streams gave bytes and the runner has returned the output.
C10_Witness ==
    /\ run.pc = "done"
    /\ run.consumed["out"] > 0
    /\ run.consumed["err"] > 0
    /\ run.wait_started

\* C11: in an inline execution the captured bytes of stdout and of stderr
\* together never exceed the output ceiling.
C11_CombinedCeiling ==
    run.mode = "Inline" =>
        Len(run.buf["out"].buffer) + Len(run.buf["err"].buffer) <= MAX_OUTPUT_SIZE

\* C12: the SkillOutput execute_inline returns is flagged truncated exactly
\* when a stream was truncated, carries the notice on exactly the truncated
\* streams, and has no exit code exactly when the child ended without one.
C12_OutputFlags ==
    (run.mode = "Inline" /\ run.pc = "done") =>
        /\ run.output /= None
        /\ LET o == run.output[1]
           IN  /\ o.truncated <=> (\E s \in Streams : run.buf[s].truncated)
               /\ o.stdout_notice <=> run.buf["out"].truncated
               /\ o.stderr_notice <=> run.buf["err"].truncated
               /\ (o.exit_code = None) <=> (run.cstate = "killed")
               /\ (o.exit_code /= None) => o.exit_code = Some(run.exit_code)

\* An output with stdout alone truncated, from a child that a signal ended.
C12_Witness ==
    /\ run.mode = "Inline"
    /\ run.pc = "done"
    /\ run.output /= None
    /\ run.output[1].truncated
    /\ run.output[1].stdout_notice
    /\ ~run.output[1].stderr_notice
    /\ run.output[1].exit_code = None
    /\ run.consumed["err"] > 0

\* C13: in every state with the output panel shown, whatever the input
\* mode, the Esc key hides the panel and does not set the quit flag.
C13_EscHidesPanel ==
    (app.output_panel_visible /\ ~app.should_quit) =>
        LET ev == map_key_event(Key("Esc", ""), app.input_mode)
        IN  /\ ev /= None
            /\ \A outcome \in OutcomesFor(ev[1]) :
                  LET st == handle_event(ev[1], app, outcome)
                  IN  ~st.output_panel_visible /\ ~st.should_quit

\* The outcomes of an execution that failed.
ErrorOutcomes == {o \in ExecOutcomes : o.kind /= "ok"}

\* C14: an execution error met while handling Enter never sets the quit
\* flag, so the event loop goes on; the flag is set only by Esc in skill-list
\* navigation with an empty query.
C14_ErrorsNeverQuit ==
    /\ [](~app.should_quit =>
            \A key \in Keys :
                LET ev == map_key_event(key, app.input_mode)
                IN  (ev /= None /\ ev[1].type = "Enter") =>
                        \A o \in ErrorOutcomes :
                            ~handle_event(ev[1], app, o).should_quit)
    /\ [][(app'.should_quit /\ ~app.should_quit) =>
            /\ ~app.output_panel_visible
            /\ Len(app.search_query) = 0
            /\ app.input_mode = "Normal"]_vars

\* The error of a failed inline execution is on the output panel and the
\* application has not quit.
C14_Witness ==
    /\ app.output_panel_visible
    /\ app.active_output = Some(SkillOutput(0, 1, None, FALSE))
    /\ ~app.should_quit

\* Whether the manifest's exec names a regular file: at that path, or as a
\* command in a directory of the search path.
Resolvable(exec) ==
    IF exec.is_path THEN exec.exists /\ exec.is_file ELSE exec.in_path

\* C15: an execution whose exec fails the pre-flight check ends in an error
\* with no child process spawned, terminal control never relinquished and
\* no output returned.
C15_PreflightFailure ==
    (~Resolvable(run.exec) /\ run.pc /= "start") =>
        /\ run.pc = "error"
        /\ run.path = "validate_failed"
        /\ run.cstate = "unborn"
        /\ ~run.suspend_entered
        /\ run.raw_mode
        /\ run.restore_runs = 0
        /\ run.output = None

\* A TUI-mode execution whose exec is a directory has returned its error.
C15_Witness ==
    /\ run.mode = "Tui"
    /\ run.exec = ExecDirectory
    /\ run.pc = "error"

\* The set of skills discover_skills yields for the roots when the walks
\* return the files in the given orders.
DiscoveredIn(walks) ==
    LET m == discover_from(1, disc.roots, walks, [id \in ManifestIds |-> None])
    IN  {m[id][1] : id \in {i \in ManifestIds : m[i] /= None}}

\* C16: for the manifest files the roots hold, discover_skills yields the
\* same set of skills in whatever order the walk of each root returns its
\* files.
C16_WalkOrderIndependent ==
    disc.collection /= None =>
        \A walks \in [Range(Tiers) -> UNION {WalkOrders(n) : n \in 0..MaxFiles}] :
            (\A t \in Range(Tiers) : Len(walks[t]) = Len(disc.roots[t].files))
                => DiscoveredIn(walks) = Range(disc.collection[1])

\* C17: a manifest that fails to load is never in the collection and never
\* costs a valid manifest its place: after each root the map holds exactly
\* the identifiers of the valid manifests of the roots visited, a missing
\* root adding none, and every skill collected was built from a valid file.
C17_BadManifestsSkipped ==
    /\ {id \in ManifestIds : disc.skill_map[id] /= None}
         = {f.id : f \in {g \in FoundSkills : TierRank(g.source) <= disc.pos}}
    /\ disc.collection /= None =>
          LET c == disc.collection[1]
          IN  /\ {c[i].id : i \in 1..Len(c)} = {f.id : f \in FoundSkills}
              /\ \A i \in 1..Len(c) :
                    LET t == c[i].manifest_path[1]
                        k == c[i].manifest_path[2]
                    IN  /\ disc.roots[t].exists
                        /\ k <= Len(disc.roots[t].files)
                        /\ disc.roots[t].files[k] = c[i].id

\* One root is missing, the two others each hold a manifest that fails and
\* a valid one, and both valid ones are in the collection.
C17_Witness ==
    /\ disc.collection /= None
    /\ ~disc.roots["System"].exists
    /\ disc.roots["User"].files = <<"BAD", "x">>
    /\ disc.roots["Project"].files = <<"y", "BAD">>
    /\ Len(disc.collection[1]) = 2

\* str::trim on a text: the white space at both ends removed.
RECURSIVE Trim(_)
Trim(t) ==
    IF Len(t) = 0 THEN t
    ELSE IF Head(t) = " " THEN Trim(Tail(t))
    ELSE IF t[Len(t)] = " " THEN Trim(SubSeq(t, 1, Len(t) - 1))
    ELSE t

\* C18: validate fails exactly when id, name, description or exec is empty
\* once trimmed, or id does not match ^[a-z0-9-]+$.
C18_ValidateRejects ==
    (call /= None /\ call[1].op = "validate") =>
        LET m == call[1].arg
        IN  (call[1].result /= "Ok") <=>
                \/ Len(Trim(m.id)) = 0
                \/ Len(Trim(m.name)) = 0
                \/ Len(Trim(m.description)) = 0
                \/ Len(Trim(m.exec)) = 0
                \/ ~id_regex_is_match(m.id)

\* filter_skills has returned for a query that is empty, or is not.
Filtered(empty) ==
    /\ call /= None
    /\ call[1].op = "filter_skills"
    /\ (Len(call[1].arg.query) = 0) = empty

\* C19: for the empty query filter_skills returns the indices 0..n-1 of the
\* collection, each once, in collection order.
C19_EmptyQueryAllIndices ==
    Filtered(TRUE) =>
        LET n == Cardinality(DOMAIN call[1].arg.skills)
        IN  call[1].result = [i \in 1..n |-> i - 1]

\* The empty query was run on a collection of several skills.
C19_Witness ==
    /\ Filtered(TRUE)
    /\ Len(call[1].result) >= 2

\* The scores of the fields of a skill that match the query.
FieldScores(query, skill) ==
    {PatternScore(query, t) :
        t \in {skill.name, skill.id, JoinTags(skill.tags), skill.description}}
    \ {NoMatch}

MaxOfSet(S) == CHOOSE m \in S : \A x \in S : x <= m

\* C20: for a query that is not empty filter_skills returns, each once, the
\* indices of the skills of which a field matches, a skill's score being the
\* highest score of its matching fields, in the order of non-increasing
\* score.
C20_RankedMatches ==
    Filtered(FALSE) =>
        LET q == call[1].arg.query
            sk == call[1].arg.skills
            res == call[1].result
        IN  /\ NoDuplicates(res)
            /\ Range(res) = {i \in DOMAIN sk : FieldScores(q, sk[i]) /= {}}
            /\ \A i \in Range(res) :
                  score_skill(q, sk[i]) = MaxOfSet(FieldScores(q, sk[i]))
            /\ \A a, b \in 1..Len(res) :
                  a < b => MaxOfSet(FieldScores(q, sk[res[a]]))
                             >= MaxOfSet(FieldScores(q, sk[res[b]]))

\* A ranking that leaves a skill out and puts a later skill before an
\* earlier one.
C20_Witness ==
    /\ Filtered(FALSE)
    /\ Len(call[1].result) >= 2
    /\ Len(call[1].result) < Cardinality(DOMAIN call[1].arg.skills)
    /\ call[1].result[1] > call[1].result[2]

\* The state handle_event leaves when the key is pressed in state st (st
\* itself when map_key_event ignores the key), for an execution that ends
\* as outcome says.
PressOn(st, key, outcome) ==
    LET ev == map_key_event(key, st.input_mode)
    IN  IF ev = None THEN st ELSE handle_event(ev[1], st, outcome)

\* An outcome for the keys that start no execution.
NoOutcome == [kind |-> "ctx_err", output |-> SkillOutput(0, 0, None, FALSE)]

NextView(v) ==
    CASE v = "All" -> "Favorites"
      [] v = "Favorites" -> "Recent"
      [] v = "Recent" -> "All"

\* The indices the view mode of st admits.
AdmittedIn(st) ==
    {i \in DOMAIN skills :
        \/ st.view_mode = "All"
        \/ st.view_mode = "Favorites" /\ skills[i].id \in st.favorites
        \/ /\ st.view_mode = "Recent"
           /\ \E k \in 1..Len(st.recent) :
                 k <= st.max_recent_skills /\ st.recent[k] = skills[i].id}

\* The filter composition on the view mode, favourites, recency list and
\* query of st: the admitted indices in collection order for the empty
\* query, the ranking of the query without the others for any other.
ExpectedView(st) ==
    IF Len(st.search_query) = 0
    THEN SelectSeq(IndexRange(0, Cardinality(DOMAIN skills)),
                   LAMBDA i : i \in AdmittedIn(st))
    ELSE SelectSeq(search_filtered(st.search_query), LAMBDA i : i \in AdmittedIn(st))

\* C21: with the output panel hidden a press of Tab moves the view mode one
\* step in the cycle All, Favorites, Recent, keeps the search query and
\* leaves the filtered view recomputed for the new view mode; three presses
\* bring the view mode back.  No other step changes the view mode.
C21_TabCyclesView ==
    /\ []((~app.output_panel_visible /\ ~app.should_quit) =>
            LET tab == Key("Tab", "")
                st == PressOn(app, tab, NoOutcome)
            IN  /\ st.view_mode = NextView(app.view_mode)
                /\ st.search_query = app.search_query
                /\ st.filtered_skills = ExpectedView(st)
                /\ PressOn(PressOn(st, tab, NoOutcome), tab, NoOutcome).view_mode
                     = app.view_mode)
    /\ [][app'.view_mode /= app.view_mode =>
            /\ ~app.output_panel_visible
            /\ app'.view_mode = NextView(app.view_mode)
            /\ app'.search_query = app.search_query
            /\ app'.filtered_skills = ExpectedView(app')]_vars

\* The Recent view of a recency list that is not empty, under a query.
C21_Witness ==
    /\ app.view_mode = "Recent"
    /\ Len(app.recent) > 0
    /\ Len(app.search_query) > 0
    /\ Len(app.filtered_skills) > 0
    /\ Len(app.filtered_skills) < NSkills
    /\ app.filtered_skills = ExpectedView(app)

\* C22: the key that returns from Insert to Normal mode changes the input
\* mode and nothing else: the query, the filtered view, the selection index
\* and the scroll offset stay.
C22_ReturnKeepsSearch ==
    /\ []((app.input_mode = "Insert" /\ ~app.output_panel_visible /\ ~app.should_quit) =>
            PressOn(app, Key("Esc", ""), NoOutcome) = [app EXCEPT !.input_mode = "Normal"])
    /\ [][(app.input_mode = "Insert" /\ app'.input_mode = "Normal") =>
            app' = [app EXCEPT !.input_mode = "Normal"]]_vars

\* Back in Normal mode with a query typed in Insert mode and a selection
\* moved off the first item.
C22_Witness ==
    /\ app.input_mode = "Normal"
    /\ Len(app.search_query) > 0
    /\ app.selected_index > 0

\* The step about to be taken calls one of the methods ops.
Calling(ops) == call' /= None /\ call'[1].op \in ops

\* C23: on a view of n > 0 items a step down from index i selects
\* (i + 1) mod n and a step up selects (i - 1) mod n; on an empty view
\* neither changes anything.
C23_StepWraps ==
    [][Calling({"move_selection_down", "move_selection_up"}) =>
        LET n == Len(app.filtered_skills)
            i == app.selected_index
        IN  IF n = 0 THEN app' = app
            ELSE /\ app'.filtered_skills = app.filtered_skills
                 /\ call'[1].op = "move_selection_down" =>
                       app'.selected_index = (i + 1) % n
                 /\ call'[1].op = "move_selection_up" =>
                       app'.selected_index = (i + n - 1) % n]_vars

\* A step up from the first of several items has selected the last.
C23_Witness ==
    /\ call /= None
    /\ call[1].op = "move_selection_up"
    /\ call[1].was_at = 0
    /\ Len(app.filtered_skills) >= 2
    /\ app.selected_index = Len(app.filtered_skills) - 1

\* C24: on a view of n > 0 items page down from index i with page size p
\* selects min(i + p, n - 1) and page up selects max(i - p, 0); on an empty
\* view neither changes anything.
C24_PageClamps ==
    [][Calling({"move_selection_page_down", "move_selection_page_up"}) =>
        LET n == Len(app.filtered_skills)
            i == app.selected_index
            ps == call'[1].arg
        IN  IF n = 0 THEN app' = app
            ELSE /\ app'.filtered_skills = app.filtered_skills
                 /\ call'[1].op = "move_selection_page_down" =>
                       app'.selected_index = Min(i + ps, n - 1)
                 /\ call'[1].op = "move_selection_page_up" =>
                       app'.selected_index = Max(i - ps, 0)]_vars

\* A page down that would pass the last item has stopped on it.
C24_Witness ==
    /\ call /= None
    /\ call[1].op = "move_selection_page_down"
    /\ call[1].was_at >= 1
    /\ call[1].was_at + call[1].arg > Len(app.filtered_skills) - 1
    /\ app.selected_index = Len(app.filtered_skills) - 1

\* C25: after any sequence of steps and page moves with visible height
\* h > 0 the selected item is inside the window that starts at the scroll
\* offset.
C25_SelectionVisible ==
    (call /= None /\ call[1].arg > 0 /\ Len(app.filtered_skills) > 0) =>
        /\ app.scroll_offset <= app.selected_index
        /\ app.selected_index < app.scroll_offset + call[1].arg

\* The highest output scroll offset: the lines of stdout plus, when stderr
\* is not empty, its lines and one separator line, less the visible height.
OutputCap ==
    IF app.active_output = None THEN 0
    ELSE LET o == app.active_output[1]
             total == o.stdout_lines
                      + (IF o.stderr_lines > 0 THEN o.stderr_lines + 1 ELSE 0)
         IN  Max(total - OUTPUT_VISIBLE_HEIGHT, 0)

ScrollUpKeys == {Key("Up", ""), Key("Char", "k")}

ScrollDownKeys == {Key("Down", ""), Key("Char", "j")}

\* C26: while the output panel is shown the output scroll offset stays
\* between 0 and the cap; a scroll up lowers it by one and leaves it at 0, a
\* scroll down raises it by one and leaves it at the cap.
C26_OutputScrollBounded ==
    app.output_panel_visible =>
        LET off == app.output_scroll_offset
        IN  /\ 0 <= off
            /\ off <= OutputCap
            /\ \A k \in ScrollUpKeys :
                  PressOn(app, k, NoOutcome) =
                      [app EXCEPT !.output_scroll_offset = Max(off - 1, 0)]
            /\ \A k \in ScrollDownKeys :
                  PressOn(app, k, NoOutcome) =
                      [app EXCEPT !.output_scroll_offset = Min(off + 1, OutputCap)]

\* An output with lines on stderr has been scrolled down to its cap.
C26_Witness ==
    /\ app.output_panel_visible
    /\ app.active_output /= None
    /\ app.active_output[1].stderr_lines > 0
    /\ OutputCap > 0
    /\ app.output_scroll_offset = OutputCap

\* Enter can start an inline execution: the panel is hidden and the skill
\* selected runs inline.
InlineSelected ==
    /\ ~app.output_panel_visible
    /\ ~app.should_quit
    /\ selected_skill(app) /= None
    /\ skills[selected_skill(app)[1]].mode = "Inline"

\* C28: the output panel is hidden at the start; an inline execution
\* started by Enter that completes leaves the panel shown with its output
\* and the output scroll offset 0, and the panel is never shown otherwise
\* than with an output and at offset 0.
C28_PanelShownOnCompletion ==
    /\ ~app.output_panel_visible
    /\ [](InlineSelected =>
            \A o \in {x \in ExecOutcomes : x.kind = "ok"} :
                LET st == PressOn(app, Key("Enter", ""), o)
                IN  /\ st.output_panel_visible
                    /\ st.active_output = Some(o.output)
                    /\ st.output_scroll_offset = 0)
    /\ [][(~app.output_panel_visible /\ app'.output_panel_visible) =>
            /\ app'.active_output /= None
            /\ app'.output_scroll_offset = 0]_vars

\* A second output is on the panel, at offset 0: the skill that produced it
\* is already in the recency list behind another one.
C28_Witness ==
    /\ app.output_panel_visible
    /\ app.active_output /= None
    /\ app.active_output[1].exit_code /= None
    /\ app.output_scroll_offset = 0
    /\ Len(app.recent) >= 2

\* Enter would start the execution of the selected skill.
EnterStarts ==
    /\ ~app.output_panel_visible
    /\ ~app.should_quit
    /\ selected_skill(app) /= None

\* The failure to build the execution context (the working directory cannot
\* be determined), as an outcome of Enter.
ContextFailure == [kind |-> "ctx_err", output |-> SkillOutput(0, 0, None, FALSE)]

\* C29: a failure to build the execution context while Enter is handled is
\* handled for that execution alone: no skill runs and the recency list, the
\* output panel and the quit flag are as they were, so the event loop goes on.
C29_ContextErrorKeepsRunning ==
    EnterStarts => PressOn(app, Key("Enter", ""), ContextFailure) = app

\* C29 as stated: a failure to build the execution context ends the process.
C29_ContextErrorTerminates ==
    EnterStarts => PressOn(app, Key("Enter", ""), ContextFailure).should_quit

\* Enter would start a skill further down the list, after an earlier
\* execution has succeeded.
C29_Witness ==
    /\ EnterStarts
    /\ app.selected_index > 0
    /\ Len(app.recent) > 0

\* C30: the filtered view is the filter composition on the view mode, the
\* favourites, the recency list and the search query of the state.
C30_ViewMatchesComposition ==
    app.filtered_skills = ExpectedView(app)

\* prepare_environment has returned.
Prepared == call /= None /\ call[1].op = "prepare_environment"

\* C27: the mapping prepare_environment returns has the keys PANE_ID,
\* PANE_NAME and PANE_CONFIG_PATH, PANE_CWD exactly when pass_cwd is set,
\* PANE_GIT_ROOT exactly when pass_git_root is set and the context has a git
\* root, PANE_PROJECT_NAME exactly when pass_project_name is set and the
\* context has a project name, and no other key.
C27_EnvironmentKeys ==
    Prepared =>
        LET env_vars == call[1].result[1]
            context == call[1].arg.context
            flags == call[1].arg.context_config
        IN  DOMAIN env_vars =
                {"PANE_ID", "PANE_NAME", "PANE_CONFIG_PATH"}
                \cup (IF flags.pass_cwd THEN {"PANE_CWD"} ELSE {})
                \cup (IF flags.pass_git_root /\ context.git_root /= None
                      THEN {"PANE_GIT_ROOT"} ELSE {})
                \cup (IF flags.pass_project_name /\ context.project_name /= None
                      THEN {"PANE_PROJECT_NAME"} ELSE {})

\* The git root was asked for but none was detected, the working directory
\* was not asked for, and the project name was passed.
C27_Witness ==
    /\ Prepared
    /\ ~call[1].arg.context_config.pass_cwd
    /\ call[1].arg.context_config.pass_git_root
    /\ call[1].arg.context.git_root = None
    /\ DOMAIN call[1].result[1] =
           {"PANE_ID", "PANE_NAME", "PANE_CONFIG_PATH", "PANE_PROJECT_NAME"}

\* The keys of the model and a character key that no mode gives a command.
KeysAndLetter == Keys \cup {Key("Char", "x")}

\* The keys whose press keeps the query within the queries of the model: a
\* character typed into the query is one of CharKeys and leaves the query
\* at most MaxQueryLen long.
PressableKeys ==
    {key \in KeysAndLetter :
        (key.code = "Char" /\ app.input_mode = "Insert" /\ ~app.output_panel_visible)
            => (key.ch \in CharKeys /\ Len(app.search_query) < MaxQueryLen)}

\* Every state a press of key can leave the state st in.
Presses(st, key) == {PressOn(st, key, o) : o \in ExecOutcomes}

\* C31: a press sets the quit flag only when it is Esc in Normal mode with
\* the output panel hidden and the query empty; Esc in Normal mode with the
\* panel hidden and a query clears the query, re-filters and does not quit;
\* no press and no step clears the quit flag.
C31_QuitOnlyByEsc ==
    /\ [](\A key \in PressableKeys : \A st \in Presses(app, key) :
            /\ (st.should_quit /\ ~app.should_quit) =>
                  /\ key.code = "Esc"
                  /\ app.input_mode = "Normal"
                  /\ ~app.output_panel_visible
                  /\ Len(app.search_query) = 0
            /\ app.should_quit => st.should_quit
            /\ (/\ key.code = "Esc"
                /\ app.input_mode = "Normal"
                /\ ~app.output_panel_visible
                /\ Len(app.search_query) > 0) =>
                  /\ st.search_query = <<>>
                  /\ st.filtered_skills = ExpectedView(st)
                  /\ ~st.should_quit)
    /\ [][app.should_quit => app'.should_quit]_vars

\* The quit flag is set while an earlier execution is on record.
C31_Witness ==
    /\ app.should_quit
    /\ Len(app.recent) > 0

\* C33 as stated: an execution that returns puts the skill first in the
\* recency list.
C33_ExecutedBecomesFirst ==
    EnterStarts =>
        \A o \in {x \in ExecOutcomes : x.kind = "ok"} :
            LET st == PressOn(app, Key("Enter", ""), o)
            IN  /\ Len(st.recent) > 0
                /\ st.recent[1] = skills[selected_skill(app)[1]].id

\* C33: a press changes the recency list only when it is Enter on a selected
\* skill and the execution returns; after such a return the list is the
\* skill's identifier followed by the other entries in their order, cut to
\* max_recent_skills entries (so it is empty when that limit is 0); when the
\* context cannot be built or the execution fails the list is unchanged.
C33_RecentOnlyOnReturn ==
    \A key \in PressableKeys : \A o \in ExecOutcomes :
        LET st == PressOn(app, key, o)
        IN  IF /\ key.code = "Enter"
               /\ ~app.output_panel_visible
               /\ selected_skill(app) /= None
               /\ o.kind = "ok"
            THEN LET id == skills[selected_skill(app)[1]].id
                     full == <<id>> \o SelectSeq(app.recent, LAMBDA r : r /= id)
                 IN  st.recent = SubSeq(full, 1, Min(Len(full), app.max_recent_skills))
            ELSE st.recent = app.recent

\* An execution has put a second skill in front of the first one recorded.
C33_Witness ==
    /\ Len(app.recent) >= 2
    /\ app.max_recent_skills >= 2

\* C34: while the output panel is shown no press changes the selection
\* index, the list scroll offset, the search query, the filtered view, the
\* view mode, the input mode, the recency list or the quit flag: a press
\* changes at most the output scroll offset, the visibility of the panel
\* and the output stored with it.
C34_PanelKeepsListState ==
    app.output_panel_visible =>
        \A key \in KeysAndLetter : \A st \in Presses(app, key) :
            [st EXCEPT !.output_scroll_offset = app.output_scroll_offset,
                       !.output_panel_visible = app.output_panel_visible,
                       !.active_output = app.active_output] = app

\* The panel is shown over a list with a query, a selection down the list
\* and Insert mode.
C34_Witness ==
    /\ app.output_panel_visible
    /\ app.input_mode = "Insert"
    /\ Len(app.search_query) > 0
    /\ app.output_scroll_offset > 0

\* C35: in Normal mode a press changes the search query only when it is Esc,
\* and then the query is empty; in Insert mode with the panel hidden a
\* character key appends its character and Backspace removes the last one.
C35_NormalNeverTypes ==
    /\ app.input_mode = "Normal" =>
          \A key \in KeysAndLetter : \A st \in Presses(app, key) :
              st.search_query /= app.search_query =>
                  key.code = "Esc" /\ st.search_query = <<>>
    /\ (/\ app.input_mode = "Insert"
        /\ ~app.output_panel_visible
        /\ Len(app.search_query) < MaxQueryLen) =>
          /\ \A c \in CharKeys :
                PressOn(app, Key("Char", c), NoOutcome).search_query =
                    Append(app.search_query, c)
          /\ PressOn(app, Key("Backspace", ""), NoOutcome).search_query =
                SubSeq(app.search_query, 1, Len(app.search_query) - 1)

\* Normal mode with a query typed earlier.
C35_Witness ==
    /\ app.input_mode = "Normal"
    /\ ~app.output_panel_visible
    /\ Len(app.search_query) = MaxQueryLen
    /\ ~app.should_quit

\* C37: the output panel is visible exactly when an output is stored.
C37_VisibleIffStored ==
    app.output_panel_visible <=> app.active_output /= None

\* The panel has been shown, scrolled and hidden again.
C37_Witness ==
    /\ ~app.output_panel_visible
    /\ app.active_output = None
    /\ app.output_scroll_offset > 0

\* C32: once the user presses only Esc, the quit flag is eventually set.
C32_EscAlwaysLeaves ==
    (call /= None) ~> app.should_quit

\* C36: the truncation flag of an OutputBuffer is set exactly when a byte
\* given to append was discarded, and the content is the first
\* min(bytes appended, ceiling) bytes of the concatenated input.
C36_TruncatedIffDiscarded ==
    /\ ob.buf.truncated <=> Len(ob.appended) > ob.buf.size_limit
    /\ ob.buf.buffer =
           SubSeq(ob.appended, 1, Min(Len(ob.appended), ob.buf.size_limit))

\* C38: the list scroll offset never exceeds the selection index.
C38_ScrollNotPastSelection ==
    app.scroll_offset <= app.selected_index

\* A step up from a window scrolled down has pulled the window up with the
\* selection.
C38_Witness ==
    /\ call[1].op = "move_selection_up"
    /\ call[1].was_at = app.selected_index + 1
    /\ app.scroll_offset = app.selected_index
    /\ app.scroll_offset > 0

\* C39: the status execute_skill returns for an inline skill carries the
\* exit code of the skill's process: it reports success exactly when the
\* process exited with code 0.
C39_InlineStatusCarriesExit ==
    (/\ call /= None
     /\ call[1].op = "execute_skill"
     /\ call[1].arg.mode = "Inline"
     /\ call[1].result[1].ok) =>
        (success(call[1].result[1].value) <=> call[1].arg.child = Some(0))

\* The keys on which handle_key_event of the browser updates the search.
SearchUpdating(key) ==
    \/ app.search_mode /\ ~app.detail_mode /\ key.code \in {"Char", "Backspace"}
    \/ ~app.search_mode /\ ~app.detail_mode /\ key = Key("Char", "/")

\* C40: in the tips browser the selected index is smaller than the number
\* of filtered tips whenever that number is not zero, so that selected_tip
\* is a tip of the collection, and it is 0 after every search update.
C40_TipSelectionInBounds ==
    /\ Len(app.filtered_tips) /= 0 =>
          /\ app.selected_index < Len(app.filtered_tips)
          /\ selected_tip(app)[1] \in DOMAIN app.tips
    /\ \A key \in TipsKeys :
          (SearchUpdating(key)
              /\ (key.code = "Char" => Len(app.search_query) < MaxQueryLen))
            => handle_key_event(app, key).selected_index = 0

\* A search that keeps some tips but not all is over, and the selection has
\* been moved to the last tip it kept.
C40_Witness ==
    /\ ~app.search_mode
    /\ Len(app.search_query) > 0
    /\ Len(app.filtered_tips) >= 2
    /\ Len(app.filtered_tips) < Cardinality(DOMAIN app.tips)
    /\ app.selected_index = Len(app.filtered_tips) - 1

====
